---- MODULE Spec2Model ----
(***************************************************************************)
(* A model of the one9-money-control server: the category, expense,        *)
(* income, trip, report, user and import-configuration routers over their  *)
(* MongoDB collections, the statistics they compute, and the mailer with   *)
(* the report dispatch that uses it.                                       *)
(*                                                                         *)
(* Time: a Date is modelled by its instant in whole hours since            *)
(* 1970-01-01T00:00Z (the JavaScript millisecond instant, cut to hours).   *)
(* Amounts are integers.  The server's time zone is a fixed offset from    *)
(* UTC (no daylight saving), in hours.                                     *)
(***************************************************************************)
EXTENDS Integers, Sequences, FiniteSets, TLC

VARIABLES
    tz,          \* the server's offset from UTC, in hours (process environment)
    now,         \* the instant "new Date()" returns
    nextId,      \* the next ObjectId the database hands out
    categories,  \* the Category collection
    expenses,    \* the Expense collection
    incomes,     \* the Income collection
    trips,       \* the Trip collection
    res,         \* the response of the request in service (Idle: none)
    probe,       \* inputs of a frequency-key evaluation (SpecKey only)
    reports,     \* the Report collection
    mails,       \* the mails handed to the transporter, in order
    batch,       \* the batch report dispatch in progress (NoBatch: none)
    configs,     \* the ImportConfiguration collection
    files        \* the temporary files of uploads that are on disk

vars == <<tz, now, nextId, categories, expenses, incomes, trips, res, probe, reports, mails, batch, configs, files>>

(***************************************************************************)
(* Calendar: what the JavaScript Date does                                 *)
(***************************************************************************)
HoursPerDay == 24

\* 1970-01-01 was a Thursday: getDay() numbers Sunday 0 .. Saturday 6
EpochWeekday == 4

\* The civil date of a day number (days since 1970-01-01), proleptic Gregorian.
CivilFromDays(days) ==
    LET z   == days + 719468
        era == z \div 146097
        doe == z - era * 146097
        yoe == (doe - doe \div 1460 + doe \div 36524 - doe \div 146096) \div 365
        doy == doe - (365 * yoe + yoe \div 4 - yoe \div 100)
        mp  == (5 * doy + 2) \div 153
        d   == doy - (153 * mp + 2) \div 5 + 1
        m   == IF mp < 10 THEN mp + 3 ELSE mp - 9
        y   == yoe + era * 400 + (IF m <= 2 THEN 1 ELSE 0)
    IN  [year |-> y, month |-> m, day |-> d]

\* The day number of a civil date.
DaysFromCivil(y, m, d) ==
    LET yy  == IF m <= 2 THEN y - 1 ELSE y
        era == yy \div 400
        yoe == yy - era * 400
        mp  == IF m > 2 THEN m - 3 ELSE m + 9
        doy == (153 * mp + 2) \div 5 + d - 1
        doe == yoe * 365 + yoe \div 4 - yoe \div 100 + doy
    IN  era * 146097 + doe - 719468

\* The instant of y-m-d h:00 UTC.
Instant(y, m, d, h) == DaysFromCivil(y, m, d) * HoursPerDay + h

\* UTC and local calendar fields of an instant.
UTCFields(t)   == CivilFromDays(t \div HoursPerDay)
LocalFields(t) == CivilFromDays((t + tz) \div HoursPerDay)

getFullYear(t) == LocalFields(t).year
getMonth(t)    == LocalFields(t).month - 1
getDate(t)     == LocalFields(t).day
getDay(t)      == (((t + tz) \div HoursPerDay) + EpochWeekday) % 7

\* setDate(n) on a copy of t: the local day of the month becomes n, the local
\* time of day is kept, and n < 1 runs back into the previous months.
setDate(t, n) == t + (n - getDate(t)) * HoursPerDay

Pad2(n) == IF n < 10 THEN "0" \o ToString(n) ELSE ToString(n)

\* toISOString().slice(0, 7) and toISOString().split("T")[0] (or slice(0, 10))
ISOMonth(t) == LET f == UTCFields(t) IN ToString(f.year) \o "-" \o Pad2(f.month)
ISODate(t)  == LET f == UTCFields(t)
               IN  ToString(f.year) \o "-" \o Pad2(f.month) \o "-" \o Pad2(f.day)

\* Math.ceil(a / b) and Math.floor(a / b) for b > 0
CeilDiv(a, b)  == -((-a) \div b)
FloorDiv(a, b) == a \div b

(***************************************************************************)
(* The three frequency-key functions                                       *)
(***************************************************************************)
Frequencies == {"daily", "weekly", "monthly", "quarterly", "yearly"}

\* calculateFrequencyKey with the default case returning the daily key
calculateFrequencyKey_DefaultDaily(date, frequency) ==
    CASE frequency = "daily"     -> ISODate(date)
      [] frequency = "weekly"    -> ISODate(setDate(date, getDate(date) - getDay(date)))
      [] frequency = "monthly"   -> ISOMonth(date)
      [] frequency = "quarterly" ->
            ToString(getFullYear(date)) \o "-Q" \o ToString(FloorDiv(getMonth(date) + 3, 3))
      [] frequency = "yearly"    -> ToString(getFullYear(date))
      [] OTHER                   -> ISODate(date)

\* expense.router.js: calculateFrequencyKey(date, frequency)
calculateFrequencyKey(date, frequency) ==
    CASE frequency = "daily"     -> ISODate(date)
      [] frequency = "weekly"    -> ISODate(setDate(date, getDate(date) - getDay(date)))
      [] frequency = "monthly"   -> ISOMonth(date)
      [] frequency = "quarterly" ->
            ToString(getFullYear(date)) \o "-Q" \o ToString(FloorDiv(getMonth(date) + 3, 3))
      [] frequency = "yearly"    -> ToString(getFullYear(date))
      [] OTHER                   -> ISOMonth(date)

\* income.router.js: getFrequencyKey(date), closed over the request's frequency
getFrequencyKey(date, frequency) ==
    CASE frequency = "daily"     -> ISODate(date)
      [] frequency = "weekly"    ->
            ToString(getFullYear(date)) \o "-W" \o ToString(CeilDiv(getDate(date), 7))
      [] frequency = "monthly"   -> ISOMonth(date)
      [] frequency = "quarterly" ->
            ToString(getFullYear(date)) \o "-Q" \o ToString(FloorDiv(getMonth(date), 3) + 1)
      [] frequency = "yearly"    -> ToString(getFullYear(date))
      [] OTHER                   -> ISOMonth(date)

\* trip router: formatDateKey(date), closed over the request's frequency;
\* it falls off its if-chain (undefined) for any other frequency
formatDateKey(date, frequency) ==
    CASE frequency = "weekly"    ->
            ToString(getFullYear(date)) \o "-W" \o ToString(CeilDiv(getDate(date), 7))
      [] frequency = "monthly"   ->
            ToString(getFullYear(date)) \o "-" \o ToString(getMonth(date) + 1)
      [] frequency = "quarterly" ->
            ToString(getFullYear(date)) \o "-Q" \o ToString(CeilDiv(getMonth(date) + 1, 3))
      [] frequency = "yearly"    -> ToString(getFullYear(date))
      [] OTHER                   -> "undefined"

(***************************************************************************)
(* Bounds of the model                                                     *)
(***************************************************************************)
\* Documents the database stores over a run, all collections together (every
\* document takes the next ObjectId).
MaxDocs == 3

(***************************************************************************)
(* Requests and the data they carry                                        *)
(***************************************************************************)
Users == {"u1", "u2"}

\* A field or query parameter the request does not carry (or carries empty):
\* "!x" is true of it.
NoParam == ""
NoId    == 0

\* Date strings as they come in a query or a body: an ISO date ("2024-01-31"),
\* an ISO date-time in UTC ("2024-01-31T15:00:00Z"), text that is no date, or
\* no parameter at all.
DateOnly(y, m, d)     == [form |-> "date", y |-> y, m |-> m, d |-> d, h |-> 0]
DateTime(y, m, d, h)  == [form |-> "datetime", y |-> y, m |-> m, d |-> d, h |-> h]
NotADate              == [form |-> "garbage", y |-> 0, m |-> 0, d |-> 0, h |-> 0]
NoDateParam           == [form |-> "missing", y |-> 0, m |-> 0, d |-> 0, h |-> 0]

\* new Date(string): <<instant>>, or <<>> for an Invalid Date.  An ISO date
\* without a time is read as UTC midnight.
ParseDate(s) ==
    CASE s.form = "date"     -> <<Instant(s.y, s.m, s.d, 0)>>
      [] s.form = "datetime" -> <<Instant(s.y, s.m, s.d, s.h)>>
      [] OTHER               -> <<>>

\* "!startDate": the parameter is missing or empty
Falsy(s) == s.form = "missing"

\* a <= b on Dates as JavaScript compares them: false when either is invalid
DateLE(a, b) == a # <<>> /\ b # <<>> /\ a[1] <= b[1]

\* obj[key] = (obj[key] || 0) + amount
AddTo(obj, key, amount) ==
    [k \in DOMAIN obj \cup {key} |->
        (IF k \in DOMAIN obj THEN obj[k] ELSE 0) + (IF k = key THEN amount ELSE 0)]

\* The documents of a collection in natural (insertion) order.
InOrder(docs) ==
    [i \in 1..Cardinality(docs) |->
        CHOOSE r \in docs : Cardinality({s \in docs : s.id < r.id}) = i - 1]

\* array.filter(keep) for a set of kept indices, order preserved
RECURSIVE FilterSeq(_, _)
FilterSeq(array, keep) ==
    IF array = <<>> THEN <<>>
    ELSE (IF Head(array) \in keep THEN <<Head(array)>> ELSE <<>>)
         \o FilterSeq(Tail(array), keep)

Idle == [route |-> "idle"]

\* No batch report dispatch has been started
NoBatch == [state |-> "none"]

\* The response sent, with the request it answers and two of the handler's
\* locals: the number of database queries it made, and the documents its
\* loop aggregated.
Respond(route, user, query, status, body, queries, folded) ==
    [route |-> route, user |-> user, query |-> query, status |-> status,
     body |-> body, queries |-> queries, folded |-> folded]

(***************************************************************************)
(* Category router                                                         *)
(***************************************************************************)
CategoryTypes == {"income", "expense"}

\* POST /api/category
PostCategory(u, body) ==
    /\ res = Idle
    /\ nextId <= MaxDocs
    /\ IF body.name = NoParam \/ body.type = NoParam
       THEN /\ res' = Respond("POST /api/category", u, body, 400,
                              [message |-> "Name and type are required"], 0, <<>>)
            /\ UNCHANGED <<nextId, categories>>
       ELSE IF body.type \notin CategoryTypes
       THEN /\ res' = Respond("POST /api/category", u, body, 500,
                              [error |-> "Validation failed"], 1, <<>>)
            /\ UNCHANGED <<nextId, categories>>
       ELSE /\ categories' = categories \cup
                {[id |-> nextId, userId |-> u, name |-> body.name, type |-> body.type]}
            /\ nextId' = nextId + 1
            /\ res' = Respond("POST /api/category", u, body, 201, <<nextId>>, 1, <<>>)
    /\ UNCHANGED <<tz, now, expenses, incomes, trips, probe, reports, mails, batch, configs, files>>

\* A delete that also removes the transactions that reference the category
DeleteCategory_Cascade(u, id) ==
    /\ res = Idle
    /\ LET found == {c \in categories : c.id = id /\ c.userId = u}
       IN  /\ categories' = categories \ found
           /\ expenses' = {e \in expenses : found = {} \/ e.categoryId # id}
           /\ incomes' = {t \in incomes : found = {} \/ t.categoryId # id}
           /\ res' = Respond("DELETE /api/category/:id", u, id,
                             IF found = {} THEN 404 ELSE 200, <<>>, 1, <<>>)
    /\ UNCHANGED <<tz, now, nextId, trips, probe, reports, mails, batch, configs, files>>

\* DELETE /api/category/:id
DeleteCategory(u, id) ==
    /\ res = Idle
    /\ LET found == {c \in categories : c.id = id /\ c.userId = u}
       IN  /\ categories' = categories \ found
           /\ res' = Respond("DELETE /api/category/:id", u, id,
                             IF found = {} THEN 404 ELSE 200, <<>>, 1, <<>>)
    /\ UNCHANGED <<tz, now, nextId, expenses, incomes, trips, probe, reports, mails, batch, configs, files>>

(***************************************************************************)
(* Expense router                                                          *)
(***************************************************************************)
TransactionTypes == {"fixed", "variable"}
NeedOrWant       == {"need", "want"}

\* POST /api/expense
PostExpense(u, body) ==
    /\ res = Idle
    /\ nextId <= MaxDocs
    /\ IF \/ body.categoryId = NoId \/ body.amount = 0
          \/ body.type = NoParam \/ body.needOrWant = NoParam
       THEN /\ res' = Respond("POST /api/expense", u, body, 400,
                              [message |-> "All required fields must be provided."], 0, <<>>)
            /\ UNCHANGED <<nextId, expenses>>
       ELSE IF \/ body.type \notin TransactionTypes
               \/ body.needOrWant \notin NeedOrWant
               \/ (~Falsy(body.date) /\ ParseDate(body.date) = <<>>)
       THEN /\ res' = Respond("POST /api/expense", u, body, 500,
                              [error |-> "Validation failed"], 1, <<>>)
            /\ UNCHANGED <<nextId, expenses>>
       ELSE /\ expenses' = expenses \cup
                {[id |-> nextId, userId |-> u, categoryId |-> body.categoryId,
                  amount |-> body.amount,
                  date |-> IF Falsy(body.date) THEN now ELSE ParseDate(body.date)[1],
                  type |-> body.type, needOrWant |-> body.needOrWant]}
            /\ nextId' = nextId + 1
            /\ res' = Respond("POST /api/expense", u, body, 201, <<nextId>>, 1, <<>>)
    /\ UNCHANGED <<tz, now, categories, incomes, trips, probe, reports, mails, batch, configs, files>>

\* $lookup from "categories" on categoryId, then $unwind "$category": one row
\* per matching category, none for an expense whose category is not stored.
LookupUnwindCategory(docs) ==
    LET joined == {d \in docs : \E c \in categories : c.id = d.categoryId}
        rows   == InOrder(joined)
    IN  [i \in 1..Len(rows) |->
            [doc |-> rows[i],
             category |-> CHOOSE c \in categories : c.id = rows[i].categoryId]]

\* The loop body of GET /stats/all
ExpenseStatsAllStep(stats, row) ==
    LET expense == row.doc
        month   == ISOMonth(expense.date)
    IN  [totalAmount |-> stats.totalAmount + expense.amount,
         totalAmountByType |->
            AddTo(stats.totalAmountByType, expense.type, expense.amount),
         totalAmountByNeedOrWant |->
            AddTo(stats.totalAmountByNeedOrWant, expense.needOrWant, expense.amount),
         totalAmountByMonth |-> AddTo(stats.totalAmountByMonth, month, expense.amount),
         totalAmountByCategory |->
            AddTo(stats.totalAmountByCategory, row.category.name, expense.amount)]

\* GET /stats/all without the $match on the user
ExpenseStatsAll_AllUsers(u) ==
    LET rows == LookupUnwindCategory(expenses)
        init == [totalAmount |-> 0,
                 totalAmountByType |-> [k \in {"fixed", "variable"} |-> 0],
                 totalAmountByNeedOrWant |-> [k \in {"need", "want"} |-> 0],
                 totalAmountByMonth |-> <<>>,
                 totalAmountByCategory |-> <<>>]
        fold[i \in 0..Len(rows)] ==
            IF i = 0 THEN init ELSE ExpenseStatsAllStep(fold[i - 1], rows[i])
    IN  [stats |-> fold[Len(rows)], rows |-> rows]

ExpenseStatsAll(u) ==
    LET rows == LookupUnwindCategory({e \in expenses : e.userId = u})
        init == [totalAmount |-> 0,
                 totalAmountByType |-> [k \in {"fixed", "variable"} |-> 0],
                 totalAmountByNeedOrWant |-> [k \in {"need", "want"} |-> 0],
                 totalAmountByMonth |-> <<>>,
                 totalAmountByCategory |-> <<>>]
        fold[i \in 0..Len(rows)] ==
            IF i = 0 THEN init ELSE ExpenseStatsAllStep(fold[i - 1], rows[i])
    IN  [stats |-> fold[Len(rows)], rows |-> rows]

\* GET /api/expense/stats/all
GetExpenseStatsAll(u) ==
    /\ res = Idle
    /\ LET r == ExpenseStatsAll(u)
       IN  res' = Respond("GET /api/expense/stats/all", u, <<>>, 200,
                          [stats |-> r.stats], 1, [i \in 1..Len(r.rows) |-> r.rows[i].doc.id])
    /\ UNCHANGED <<tz, now, nextId, categories, expenses, incomes, trips, probe, reports, mails, batch, configs, files>>

\* The date an Invalid Date becomes when the driver writes it into the query
\* (its NaN instant is written as the instant 0)
BsonDate(d) == IF d = <<>> THEN 0 ELSE d[1]

\* A $match that tests the end of the range only
MatchDateRange_EndOnly(doc, start, end) ==
    doc.date <= BsonDate(end)

\* $match { date: { $gte: start, $lte: end } }
MatchDateRange(doc, start, end) ==
    /\ doc.date >= BsonDate(start)
    /\ doc.date <= BsonDate(end)

\* The loop body with the total by type assigned instead of accumulated
ExpenseStatsFilterStep_TypeAssigned(stats, row, frequency) ==
    LET expense      == row.doc
        frequencyKey == calculateFrequencyKey(expense.date, frequency)
    IN  [totalAmount |-> stats.totalAmount + expense.amount,
         totalAmountByType |->
            [stats.totalAmountByType EXCEPT ![expense.type] = expense.amount],
         totalAmountByNeedOrWant |->
            AddTo(stats.totalAmountByNeedOrWant, expense.needOrWant, expense.amount),
         totalAmountByFrequency |->
            AddTo(stats.totalAmountByFrequency, frequencyKey, expense.amount),
         totalAmountByCategory |->
            AddTo(stats.totalAmountByCategory, row.category.name, expense.amount)]

\* The loop body of GET /stats/filter
ExpenseStatsFilterStep(stats, row, frequency) ==
    LET expense      == row.doc
        frequencyKey == calculateFrequencyKey(expense.date, frequency)
    IN  [totalAmount |-> stats.totalAmount + expense.amount,
         totalAmountByType |->
            AddTo(stats.totalAmountByType, expense.type, expense.amount),
         totalAmountByNeedOrWant |->
            AddTo(stats.totalAmountByNeedOrWant, expense.needOrWant, expense.amount),
         totalAmountByFrequency |->
            AddTo(stats.totalAmountByFrequency, frequencyKey, expense.amount),
         totalAmountByCategory |->
            AddTo(stats.totalAmountByCategory, row.category.name, expense.amount)]

ExpenseStatsFilter(u, query) ==
    LET start == ParseDate(query.startDate)
        end   == ParseDate(query.endDate)
        rows  == LookupUnwindCategory(
                    {e \in expenses : e.userId = u /\ MatchDateRange(e, start, end)})
        init  == [totalAmount |-> 0,
                  totalAmountByType |-> [k \in {"fixed", "variable"} |-> 0],
                  totalAmountByNeedOrWant |-> [k \in {"need", "want"} |-> 0],
                  totalAmountByFrequency |-> <<>>,
                  totalAmountByCategory |-> <<>>]
        fold[i \in 0..Len(rows)] ==
            IF i = 0 THEN init
            ELSE ExpenseStatsFilterStep(fold[i - 1], rows[i], query.frequency)
    IN  [stats |-> fold[Len(rows)], rows |-> rows]

\* GET /api/expense/stats/filter
GetExpenseStatsFilter(u, query) ==
    /\ res = Idle
    /\ LET r == ExpenseStatsFilter(u, query)
       IN  res' = Respond("GET /api/expense/stats/filter", u, query, 200,
                          [stats |-> r.stats], 1, [i \in 1..Len(r.rows) |-> r.rows[i].doc.id])
    /\ UNCHANGED <<tz, now, nextId, categories, expenses, incomes, trips, probe, reports, mails, batch, configs, files>>

(***************************************************************************)
(* Income router                                                           *)
(***************************************************************************)
\* POST /api/income
PostIncome(u, body) ==
    /\ res = Idle
    /\ nextId <= MaxDocs
    /\ IF \/ body.categoryId = NoId \/ body.amount = 0
          \/ body.source = NoParam \/ body.type = NoParam
       THEN /\ res' = Respond("POST /api/income", u, body, 400,
                              [message |-> "All required fields must be provided."], 0, <<>>)
            /\ UNCHANGED <<nextId, incomes>>
       ELSE IF \/ body.type \notin TransactionTypes
               \/ (~Falsy(body.date) /\ ParseDate(body.date) = <<>>)
       THEN /\ res' = Respond("POST /api/income", u, body, 500,
                              [error |-> "Validation failed"], 1, <<>>)
            /\ UNCHANGED <<nextId, incomes>>
       ELSE /\ incomes' = incomes \cup
                {[id |-> nextId, userId |-> u, categoryId |-> body.categoryId,
                  amount |-> body.amount, source |-> body.source,
                  date |-> IF Falsy(body.date) THEN now ELSE ParseDate(body.date)[1],
                  type |-> body.type]}
            /\ nextId' = nextId + 1
            /\ res' = Respond("POST /api/income", u, body, 201, <<nextId>>, 1, <<>>)
    /\ UNCHANGED <<tz, now, categories, expenses, trips, probe, reports, mails, batch, configs, files>>

\* The loop body of GET /stats/all
IncomeStatsAllStep(stats, row) ==
    LET income == row.doc
        month  == ISOMonth(income.date)
    IN  [totalAmount |-> stats.totalAmount + income.amount,
         totalAmountByType |->
            AddTo(stats.totalAmountByType, income.type, income.amount),
         totalAmountByMonth |-> AddTo(stats.totalAmountByMonth, month, income.amount),
         totalAmountByCategory |->
            AddTo(stats.totalAmountByCategory, row.category.name, income.amount)]

IncomeStatsAll(u) ==
    LET rows == LookupUnwindCategory({e \in incomes : e.userId = u})
        init == [totalAmount |-> 0,
                 totalAmountByType |-> [k \in {"fixed", "variable"} |-> 0],
                 totalAmountByMonth |-> <<>>,
                 totalAmountByCategory |-> <<>>]
        fold[i \in 0..Len(rows)] ==
            IF i = 0 THEN init ELSE IncomeStatsAllStep(fold[i - 1], rows[i])
    IN  [stats |-> fold[Len(rows)], rows |-> rows]

\* GET /api/income/stats/all
GetIncomeStatsAll(u) ==
    /\ res = Idle
    /\ LET r == IncomeStatsAll(u)
       IN  res' = Respond("GET /api/income/stats/all", u, <<>>, 200,
                          [stats |-> r.stats], 1, [i \in 1..Len(r.rows) |-> r.rows[i].doc.id])
    /\ UNCHANGED <<tz, now, nextId, categories, expenses, incomes, trips, probe, reports, mails, batch, configs, files>>

\* The loop body of GET /stats/filter
IncomeStatsFilterStep(stats, row, frequency) ==
    LET income       == row.doc
        frequencyKey == getFrequencyKey(income.date, frequency)
    IN  [totalAmount |-> stats.totalAmount + income.amount,
         totalAmountByType |->
            AddTo(stats.totalAmountByType, income.type, income.amount),
         totalAmountByFrequency |->
            AddTo(stats.totalAmountByFrequency, frequencyKey, income.amount),
         totalAmountByCategory |->
            AddTo(stats.totalAmountByCategory, row.category.name, income.amount)]

IncomeStatsFilter(u, query) ==
    LET start == ParseDate(query.startDate)
        end   == ParseDate(query.endDate)
        rows  == LookupUnwindCategory(
                    {e \in incomes : e.userId = u /\ MatchDateRange(e, start, end)})
        init  == [totalAmount |-> 0,
                  totalAmountByType |-> [k \in {"fixed", "variable"} |-> 0],
                  totalAmountByFrequency |-> <<>>,
                  totalAmountByCategory |-> <<>>]
        fold[i \in 0..Len(rows)] ==
            IF i = 0 THEN init
            ELSE IncomeStatsFilterStep(fold[i - 1], rows[i], query.frequency)
    IN  [stats |-> fold[Len(rows)], rows |-> rows]

\* GET /api/income/stats/filter
GetIncomeStatsFilter(u, query) ==
    /\ res = Idle
    /\ LET r == IncomeStatsFilter(u, query)
       IN  res' = Respond("GET /api/income/stats/filter", u, query, 200,
                          [stats |-> r.stats], 1, [i \in 1..Len(r.rows) |-> r.rows[i].doc.id])
    /\ UNCHANGED <<tz, now, nextId, categories, expenses, incomes, trips, probe, reports, mails, batch, configs, files>>

(***************************************************************************)
(* Trip router                                                             *)
(***************************************************************************)
\* POST /api/trip
PostTrip(u, body) ==
    /\ res = Idle
    /\ nextId <= MaxDocs
    /\ IF body.name = NoParam \/ Falsy(body.startDate)
       THEN /\ res' = Respond("POST /api/trip", u, body, 400,
                              [message |-> "Name and start date are required."], 0, <<>>)
            /\ UNCHANGED <<nextId, trips>>
       ELSE IF \/ ParseDate(body.startDate) = <<>>
               \/ (~Falsy(body.endDate) /\ ParseDate(body.endDate) = <<>>)
       THEN /\ res' = Respond("POST /api/trip", u, body, 500,
                              [error |-> "Validation failed"], 1, <<>>)
            /\ UNCHANGED <<nextId, trips>>
       ELSE /\ trips' = trips \cup
                {[id |-> nextId, userId |-> u, name |-> body.name,
                  startDate |-> ParseDate(body.startDate)[1],
                  endDate |-> ParseDate(body.endDate),
                  expenses |-> body.expenses]}
            /\ nextId' = nextId + 1
            /\ res' = Respond("POST /api/trip", u, body, 201, <<nextId>>, 1, <<>>)
    /\ UNCHANGED <<tz, now, categories, expenses, incomes, probe, reports, mails, batch, configs, files>>

\* A pipeline that joins once per listed id: an expense the trip lists twice
\* comes twice
TripsAggregate_PerListing(u) ==
    LET mine == InOrder({t \in trips : t.userId = u})
    IN  [i \in 1..Len(mine) |->
            LET listed  == FilterSeq(mine[i].expenses, {e.id : e \in expenses})
                details == [k \in 1..Len(listed) |->
                               CHOOSE e \in expenses : e.id = listed[k]]
            IN  [trip |-> mine[i],
                 expensesDetails |-> details,
                 categoriesDetails |->
                    InOrder({c \in categories :
                                \E k \in 1..Len(details) : details[k].categoryId = c.id})]]

\* The aggregation pipeline of both statistics routes: the user's trips, each
\* with expensesDetails (the stored expenses whose _id the trip lists) and
\* categoriesDetails (the stored categories those expenses name).
TripsAggregate(u) ==
    LET mine == InOrder({t \in trips : t.userId = u})
    IN  [i \in 1..Len(mine) |->
            LET details == {e \in expenses :
                               \E k \in 1..Len(mine[i].expenses) : mine[i].expenses[k] = e.id}
            IN  [trip |-> mine[i],
                 expensesDetails |-> InOrder(details),
                 categoriesDetails |->
                    InOrder({c \in categories : \E e \in details : e.categoryId = c.id})]]

\* Math.ceil((endDate - startDate) / (1000 * 60 * 60 * 24)) || 1
TripDuration(trip) ==
    LET startDate == trip.startDate
        endDate   == IF trip.endDate # <<>> THEN trip.endDate[1] ELSE now
        days      == CeilDiv(endDate - startDate, HoursPerDay)
    IN  IF days = 0 THEN 1 ELSE days

\* (n / d).toFixed(2), d # 0: two decimals, rounded to nearest.  (An exact tie
\* is rounded away from zero here; JavaScript rounds the binary value.)
ToFixed2(n, d) ==
    LET neg  == (n < 0 /\ d > 0) \/ (n > 0 /\ d < 0)
        an   == IF n < 0 THEN -n ELSE n
        ad   == IF d < 0 THEN -d ELSE d
        cent == (200 * an + ad) \div (2 * ad)
    IN  (IF neg THEN "-" ELSE "") \o ToString(cent \div 100) \o "." \o Pad2(cent % 100)

\* trip.categoriesDetails.find(category => category._id == expense.categoryId)?.name
\* as a sequence: the name, or none
FindCategoryName(categoriesDetails, expense) ==
    LET hits == {k \in 1..Len(categoriesDetails) :
                    categoriesDetails[k].id = expense.categoryId}
    IN  IF hits = {} THEN <<>>
        ELSE <<categoriesDetails[CHOOSE k \in hits : \A j \in hits : k <= j].name>>

\* A loop body that files an expense whose category was not found under the
\* key "undefined" instead of leaving it out of the category axis
TripStatsStep_UnresolvedKeyed(tripStats, expense, categoriesDetails) ==
    LET categoryName == FindCategoryName(categoriesDetails, expense)
    IN  [tripStats EXCEPT
            !.totalAmount = @ + expense.amount,
            !.totalAmountByType = AddTo(@, expense.type, expense.amount),
            !.totalAmountByNeedOrWant = AddTo(@, expense.needOrWant, expense.amount),
            !.totalAmountByCategory =
                AddTo(@, IF categoryName # <<>> THEN categoryName[1] ELSE "undefined",
                      expense.amount)]

\* A loop body that skips an expense whose category was not found altogether
TripStatsStep_SkipsOrphan(tripStats, expense, categoriesDetails) ==
    LET categoryName == FindCategoryName(categoriesDetails, expense)
    IN  IF categoryName = <<>> THEN tripStats
        ELSE [tripStats EXCEPT
                !.totalAmount = @ + expense.amount,
                !.totalAmountByType = AddTo(@, expense.type, expense.amount),
                !.totalAmountByNeedOrWant = AddTo(@, expense.needOrWant, expense.amount),
                !.totalAmountByCategory = AddTo(@, categoryName[1], expense.amount)]

\* The loop body of both statistics routes
TripStatsStep(tripStats, expense, categoriesDetails) ==
    LET categoryName == FindCategoryName(categoriesDetails, expense)
    IN  [tripStats EXCEPT
            !.totalAmount = @ + expense.amount,
            !.totalAmountByType = AddTo(@, expense.type, expense.amount),
            !.totalAmountByNeedOrWant = AddTo(@, expense.needOrWant, expense.amount),
            !.totalAmountByCategory =
                IF categoryName # <<>> /\ categoryName[1] # ""
                THEN AddTo(@, categoryName[1], expense.amount) ELSE @]

\* One trip's record: its duration, the fold over the given expenses, and the
\* average of the total over the duration
TripRecord(t, aggregated) ==
    LET init == [tripName |-> t.trip.name,
                 tripDuration |-> TripDuration(t.trip),
                 totalAmount |-> 0,
                 totalAmountByType |-> [k \in {"fixed", "variable"} |-> 0],
                 totalAmountByNeedOrWant |-> [k \in {"need", "want"} |-> 0],
                 totalAmountByCategory |-> <<>>,
                 averageDailyExpense |-> "0"]
        fold[i \in 0..Len(aggregated)] ==
            IF i = 0 THEN init
            ELSE TripStatsStep(fold[i - 1], aggregated[i], t.categoriesDetails)
        done == fold[Len(aggregated)]
    IN  [done EXCEPT !.averageDailyExpense = ToFixed2(done.totalAmount, done.tripDuration)]

TripStatsAll(u) ==
    LET fetched == TripsAggregate(u)
    IN  [stats  |-> [i \in 1..Len(fetched) |->
                        TripRecord(fetched[i], fetched[i].expensesDetails)],
         folded |-> [i \in 1..Len(fetched) |->
                        [trip |-> fetched[i].trip.id,
                         ids  |-> [k \in 1..Len(fetched[i].expensesDetails) |->
                                      fetched[i].expensesDetails[k].id]]]]

\* GET /api/trip/stats/all
GetTripStatsAll(u) ==
    /\ res = Idle
    /\ LET r == TripStatsAll(u)
       IN  res' = Respond("GET /api/trip/stats/all", u, <<>>, 200,
                          [stats |-> r.stats], 1, r.folded)
    /\ UNCHANGED <<tz, now, nextId, categories, expenses, incomes, trips, probe, reports, mails, batch, configs, files>>

\* trip.expensesDetails.filter(...): the expenses dated within the range
FilterByRange(expensesDetails, startDate, endDate) ==
    FilterSeq(expensesDetails,
              {e \in {expensesDetails[k] : k \in 1..Len(expensesDetails)} :
                  /\ DateLE(ParseDate(startDate), <<e.date>>)
                  /\ DateLE(<<e.date>>, ParseDate(endDate))})

\* The grouping of a trip's filtered expenses: the expenses themselves for
\* "daily", their amounts by formatDateKey otherwise
GroupByFrequency(filteredExpenses, frequency) ==
    IF frequency = "daily" THEN filteredExpenses
    ELSE LET group[i \in 0..Len(filteredExpenses)] ==
                 IF i = 0 THEN <<>>
                 ELSE AddTo(group[i - 1],
                            formatDateKey(filteredExpenses[i].date, frequency),
                            filteredExpenses[i].amount)
         IN  group[Len(filteredExpenses)]

\* The trips' records in order with no trip left out: a trip without an
\* expense in range gets a record of zeros
RECURSIVE TripFilterRecords_ZeroFilled(_, _)
TripFilterRecords_ZeroFilled(fetched, query) ==
    IF fetched = <<>> THEN <<>>
    ELSE LET t == Head(fetched)
             filteredExpenses ==
                 FilterByRange(t.expensesDetails, query.startDate, query.endDate)
             tripStats == TripRecord(t, filteredExpenses)
         IN  <<[field \in DOMAIN tripStats \cup {"filteredByFrequency"} |->
                  IF field = "filteredByFrequency"
                  THEN GroupByFrequency(filteredExpenses, query.frequency)
                  ELSE tripStats[field]]>>
             \o TripFilterRecords_ZeroFilled(Tail(fetched), query)

\* The trips' records in order, the trips without an expense in range left out
RECURSIVE TripFilterRecords(_, _)
TripFilterRecords(fetched, query) ==
    IF fetched = <<>> THEN <<>>
    ELSE LET t == Head(fetched)
             filteredExpenses ==
                 FilterByRange(t.expensesDetails, query.startDate, query.endDate)
             tripStats == TripRecord(t, filteredExpenses)
         IN  (IF Len(filteredExpenses) = 0 THEN <<>>
              ELSE <<[field \in DOMAIN tripStats \cup {"filteredByFrequency"} |->
                        IF field = "filteredByFrequency"
                        THEN GroupByFrequency(filteredExpenses, query.frequency)
                        ELSE tripStats[field]]>>)
             \o TripFilterRecords(Tail(fetched), query)

validFrequencies == {"daily", "weekly", "monthly", "quarterly", "yearly"}

\* The validation that opens GET /stats/filter: the error it answers with,
\* or "" when the request passes
ValidateTripFilter_MissingOnly(query) ==
    IF Falsy(query.startDate) \/ Falsy(query.endDate) \/ query.frequency = NoParam
    THEN "Missing startDate, endDate, or frequency"
    ELSE ""

ValidateTripFilter(query) ==
    IF Falsy(query.startDate) \/ Falsy(query.endDate) \/ query.frequency = NoParam
    THEN "Missing startDate, endDate, or frequency"
    ELSE IF query.frequency \notin validFrequencies
    THEN "Invalid frequency"
    ELSE ""

\* GET /api/trip/stats/filter
GetTripStatsFilter(u, query) ==
    /\ res = Idle
    /\ IF ValidateTripFilter(query) # ""
       THEN res' = Respond("GET /api/trip/stats/filter", u, query, 400,
                           [error |-> ValidateTripFilter(query)], 0, <<>>)
       ELSE LET fetched == TripsAggregate(u)
            IN  res' = Respond("GET /api/trip/stats/filter", u, query, 200,
                    [stats |-> TripFilterRecords(fetched, query)], 1,
                    [i \in 1..Len(fetched) |->
                        LET kept == FilterByRange(fetched[i].expensesDetails,
                                                  query.startDate, query.endDate)
                        IN  [trip |-> fetched[i].trip.id,
                             ids  |-> [k \in 1..Len(kept) |-> kept[k].id]]])
    /\ UNCHANGED <<tz, now, nextId, categories, expenses, incomes, trips, probe, reports, mails, batch, configs, files>>

\* The response has been sent: the request is over.
Finish ==
    /\ res # Idle
    /\ res' = Idle
    /\ UNCHANGED <<tz, now, nextId, categories, expenses, incomes, trips, probe, reports, mails, batch, configs, files>>

(***************************************************************************)
(* The requests the specifications send                                    *)
(***************************************************************************)
\* The transactions' dates, around the range 2024-01-01 .. 2024-01-31 the
\* statistics are asked for: its first instant, the midnight that starts its
\* last day, the afternoon of its last day, and the afternoon before it.
RangeStart     == DateOnly(2024, 1, 1)
RangeEnd       == DateOnly(2024, 1, 31)
OnStart        == DateTime(2024, 1, 1, 0)
OnEnd          == DateTime(2024, 1, 31, 0)
EndDayAt15     == DateTime(2024, 1, 31, 15)
DayBeforeStart == DateTime(2023, 12, 31, 15)

CategoryBodies ==
    {[name |-> "Rent", type |-> "expense"], [name |-> "Food", type |-> "expense"]}

\* Ids a client can name: those the database has handed out so far.
KnownIds == 1..(nextId - 1)

\* A client files a transaction under a category it can list, whoever owns it,
\* and puts expenses it can list on a trip.
StoredCategoryIds == {c.id : c \in categories}
StoredExpenseIds  == {e.id : e \in expenses}

ExpenseBodies ==
    {[categoryId |-> c, amount |-> s.amount, date |-> s.date, type |-> s.type,
      needOrWant |-> s.needOrWant] :
        c \in StoredCategoryIds,
        s \in {[amount |-> 30, date |-> OnStart,        type |-> "fixed",    needOrWant |-> "need"],
               [amount |-> 50, date |-> OnEnd,          type |-> "variable", needOrWant |-> "want"],
               [amount |-> 50, date |-> EndDayAt15,     type |-> "fixed",    needOrWant |-> "want"],
               [amount |-> 30, date |-> DayBeforeStart, type |-> "variable", needOrWant |-> "need"]}}

IncomeBodies ==
    {[categoryId |-> c, amount |-> s.amount, source |-> "Job", date |-> s.date,
      type |-> s.type] :
        c \in StoredCategoryIds,
        s \in {[amount |-> 100, date |-> OnStart,        type |-> "fixed"],
               [amount |-> 70,  date |-> EndDayAt15,     type |-> "variable"],
               [amount |-> 70,  date |-> DayBeforeStart, type |-> "fixed"]}}

\* Frequencies a client sends: the five the routers know, one they do not, none.
QueryFrequencies == Frequencies \cup {"fortnightly", NoParam}

FilterQueries ==
    {[startDate |-> RangeStart, endDate |-> RangeEnd, frequency |-> f] :
        f \in QueryFrequencies}

(***************************************************************************)
(* Spec: the category, expense and income routers                          *)
(***************************************************************************)
Init ==
    /\ tz = 0
    /\ now = Instant(2024, 2, 10, 9)
    /\ nextId = 1
    /\ categories = {}
    /\ expenses = {}
    /\ incomes = {}
    /\ trips = {}
    /\ res = Idle
    /\ probe = <<>>
    /\ reports = {}
    /\ mails = <<>>
    /\ batch = NoBatch
    /\ configs = {}
    /\ files = {}

Next ==
    \/ \E u \in Users, body \in CategoryBodies : PostCategory(u, body)
    \/ \E u \in Users, id \in KnownIds : DeleteCategory(u, id)
    \/ \E u \in Users, body \in ExpenseBodies : PostExpense(u, body)
    \/ \E u \in Users, body \in IncomeBodies : PostIncome(u, body)
    \/ \E u \in Users : GetExpenseStatsAll(u)
    \/ \E u \in Users, query \in FilterQueries : GetExpenseStatsFilter(u, query)
    \/ \E u \in Users : GetIncomeStatsAll(u)
    \/ \E u \in Users, query \in FilterQueries : GetIncomeStatsFilter(u, query)
    \/ Finish

Spec == Init /\ [][Next]_vars

(***************************************************************************)
(* SpecTrip: the category, expense and trip routers                        *)
(***************************************************************************)
\* The elements of a set of ids, ascending
Ascending(ids) ==
    [i \in 1..Cardinality(ids) |->
        CHOOSE x \in ids : Cardinality({y \in ids : y < x}) = i - 1]

TripBodies ==
    {[name |-> "Goa", startDate |-> RangeStart, endDate |-> e,
      expenses |-> Ascending(ids)] :
        e \in {NoDateParam, DateOnly(2024, 1, 11)}, ids \in SUBSET StoredExpenseIds}

TripFilterQueries ==
    {[startDate |-> s, endDate |-> e, frequency |-> f] :
        s \in {RangeStart, NoDateParam}, e \in {RangeEnd, NoDateParam},
        f \in QueryFrequencies}

NextTrip ==
    \/ \E u \in Users, body \in CategoryBodies : PostCategory(u, body)
    \/ \E u \in Users, id \in KnownIds : DeleteCategory(u, id)
    \/ \E u \in Users, body \in ExpenseBodies : PostExpense(u, body)
    \/ \E u \in Users, body \in TripBodies : PostTrip(u, body)
    \/ \E u \in Users : GetTripStatsAll(u)
    \/ \E u \in Users, query \in TripFilterQueries : GetTripStatsFilter(u, query)
    \/ Finish

SpecTrip == Init /\ [][NextTrip]_vars

(***************************************************************************)
(* SpecKey: the three frequency-key functions on pairs of dates            *)
(***************************************************************************)
\* The dates: every day of a window that starts on Sunday 2023-12-24 and
\* runs over the turn of the year (and of the quarter) into February 2024,
\* at midnight and at 15:00 UTC.
KeySpanDays == 45
KeyDates ==
    {Instant(2023, 12, 24, h) + k * HoursPerDay : k \in 0..KeySpanDays, h \in {0, 15}}

\* Offsets of the server's zone from UTC, in hours
ServerZones == {0 - 8, 0, 9}

InitKey ==
    /\ tz \in ServerZones
    /\ now = Instant(2024, 2, 10, 9)
    /\ nextId = 1
    /\ categories = {}
    /\ expenses = {}
    /\ incomes = {}
    /\ trips = {}
    /\ res = Idle
    /\ probe \in [d1 : KeyDates, d2 : KeyDates, frequency : Frequencies]
    /\ reports = {}
    /\ mails = <<>>
    /\ batch = NoBatch
    /\ configs = {}
    /\ files = {}

\* The three functions applied to the two dates
EvaluateKeys ==
    /\ res = Idle
    /\ res' = [route |-> "keys",
               expense |-> <<calculateFrequencyKey(probe.d1, probe.frequency),
                             calculateFrequencyKey(probe.d2, probe.frequency)>>,
               income  |-> <<getFrequencyKey(probe.d1, probe.frequency),
                             getFrequencyKey(probe.d2, probe.frequency)>>,
               trip    |-> <<formatDateKey(probe.d1, probe.frequency),
                             formatDateKey(probe.d2, probe.frequency)>>]
    /\ UNCHANGED <<tz, now, nextId, categories, expenses, incomes, trips, probe, reports, mails, batch, configs, files>>

NextKey == EvaluateKeys \/ Finish

SpecKey == InitKey /\ [][NextKey]_vars

(***************************************************************************)
(* Properties                                                              *)
(***************************************************************************)
\* The sum of an object's values
RECURSIVE SumOfKeys(_, _)
SumOfKeys(obj, keys) ==
    IF keys = {} THEN 0
    ELSE LET k == CHOOSE x \in keys : TRUE
         IN  obj[k] + SumOfKeys(obj, keys \ {k})
SumValues(obj) == SumOfKeys(obj, DOMAIN obj)

\* The sum of the amounts of a set of documents
RECURSIVE SumAmounts(_)
SumAmounts(docs) ==
    IF docs = {} THEN 0
    ELSE LET d == CHOOSE x \in docs : TRUE
         IN  d.amount + SumAmounts(docs \ {d})

Elements(array) == {array[i] : i \in 1..Len(array)}

\* A document's category is stored
Resolves(doc) == \E c \in categories : c.id = doc.categoryId
CategoryNameOf(doc) == (CHOOSE c \in categories : c.id = doc.categoryId).name

ExpenseStatsRoutes == {"GET /api/expense/stats/all", "GET /api/expense/stats/filter"}
IncomeStatsRoutes  == {"GET /api/income/stats/all", "GET /api/income/stats/filter"}
FilterRoutes == {"GET /api/expense/stats/filter", "GET /api/income/stats/filter"}
TripStatsRoutes    == {"GET /api/trip/stats/all", "GET /api/trip/stats/filter"}

\* The time-bucket map of an expense or income statistics response
BucketMap(response) ==
    IF response.route \in FilterRoutes
    THEN response.body.stats.totalAmountByFrequency
    ELSE response.body.stats.totalAmountByMonth

\* C1: in every response of GET /stats/all and GET /stats/filter of the
\* expense and income routers, whatever the frequency, totalAmount equals the
\* sum of totalAmountByType, the sum of the time-bucket map
\* (totalAmountByMonth / totalAmountByFrequency) and the sum of
\* totalAmountByCategory.
C1_TotalsAgree ==
    res.route \in ExpenseStatsRoutes \cup IncomeStatsRoutes =>
        /\ res.status = 200
        /\ res.body.stats.totalAmount = SumValues(res.body.stats.totalAmountByType)
        /\ res.body.stats.totalAmount = SumValues(BucketMap(res))
        /\ res.body.stats.totalAmount = SumValues(res.body.stats.totalAmountByCategory)

\* C1's case: a filtered expense response over two expenses of different
\* types that fall into different buckets.
C1_Witness ==
    /\ res.route = "GET /api/expense/stats/filter"
    /\ Len(res.folded) = 2
    /\ res.body.stats.totalAmountByType["fixed"] > 0
    /\ res.body.stats.totalAmountByType["variable"] > 0
    /\ Cardinality(DOMAIN res.body.stats.totalAmountByFrequency) = 2

\* The stored expense of an id
ExpenseById(id) == CHOOSE e \in expenses : e.id = id

\* Of a trip statistics response: for each record of its stats, in order, the
\* expenses the record was folded from (GET /stats/filter leaves out the
\* trips without an expense in range).
TripRecordExpenses(response) ==
    LET kept == FilterSeq(response.folded,
                          {f \in Elements(response.folded) :
                              response.route = "GET /api/trip/stats/all" \/ Len(f.ids) > 0})
    IN  [i \in 1..Len(kept) |-> {ExpenseById(id) : id \in Elements(kept[i].ids)}]

TripStatsSent ==
    res.route \in TripStatsRoutes /\ res.status = 200

\* A record of GET /stats/filter carries a grouping by key unless the
\* frequency is daily
HasKeyedGrouping(response) ==
    response.route = "GET /api/trip/stats/filter" /\ response.query.frequency # "daily"

C4_TripOrphanCounted ==
    res.route \in TripStatsRoutes =>
        /\ res.status \in {200, 400}
        /\ res.status = 200 =>
            \A i \in 1..Len(res.body.stats) :
                LET record == res.body.stats[i]
                    folded == TripRecordExpenses(res)[i]
                    named  == {e \in folded : Resolves(e)}
                IN  /\ record.totalAmount = SumAmounts(folded)
                    /\ \A t \in TransactionTypes :
                          record.totalAmountByType[t]
                             = SumAmounts({e \in folded : e.type = t})
                    /\ \A n \in NeedOrWant :
                          record.totalAmountByNeedOrWant[n]
                             = SumAmounts({e \in folded : e.needOrWant = n})
                    /\ DOMAIN record.totalAmountByCategory
                          = {CategoryNameOf(e) : e \in named}
                    /\ \A name \in DOMAIN record.totalAmountByCategory :
                          record.totalAmountByCategory[name]
                             = SumAmounts({e \in named : CategoryNameOf(e) = name})

\* C4's case: a record folded from an expense whose category is not stored.
C4_Witness ==
    /\ TripStatsSent
    /\ \E i \in 1..Len(res.body.stats) :
          /\ \E e \in TripRecordExpenses(res)[i] : ~Resolves(e)
          /\ res.body.stats[i].totalAmount > 0
          /\ res.body.stats[i].totalAmountByCategory = <<>>

\* The user's transactions a statistics request of the expense or income
\* router asks about: all of them, or those dated within [startDate, endDate]
InQueryRange(doc, query) ==
    /\ ParseDate(query.startDate)[1] <= doc.date
    /\ doc.date <= ParseDate(query.endDate)[1]

AskedAbout(response) ==
    LET mine == {t \in (IF response.route \in ExpenseStatsRoutes THEN expenses ELSE incomes) :
                    t.userId = response.user}
    IN  IF response.route \in FilterRoutes
        THEN {t \in mine : InQueryRange(t, response.query)}
        ELSE mine

\* C3 as stated: in the expense and income statistics, a transaction whose
\* category has been deleted still adds its amount to totalAmount,
\* totalAmountByType and the time-bucket map and adds nothing to
\* totalAmountByCategory, and the request is answered 200.
C3_OrphanStillCounted ==
    res.route \in ExpenseStatsRoutes \cup IncomeStatsRoutes =>
        /\ res.status = 200
        /\ res.body.stats.totalAmount = SumAmounts(AskedAbout(res))
        /\ SumValues(res.body.stats.totalAmountByType) = SumAmounts(AskedAbout(res))
        /\ SumValues(BucketMap(res)) = SumAmounts(AskedAbout(res))
        /\ SumValues(res.body.stats.totalAmountByCategory)
              = SumAmounts({t \in AskedAbout(res) : Resolves(t)})

\* C7: in GET /stats/filter of the expense and income routers, a frequency
\* that is missing or none of daily, weekly, monthly, quarterly, yearly is
\* answered 200 with exactly the body the same request gets with
\* frequency = monthly.
C7_UnknownFrequencyIsMonthly ==
    (res.route \in FilterRoutes /\ res.query.frequency \notin Frequencies) =>
        LET monthly == [res.query EXCEPT !.frequency = "monthly"]
        IN  /\ res.status = 200
            /\ res.body = [stats |->
                  IF res.route = "GET /api/expense/stats/filter"
                  THEN ExpenseStatsFilter(res.user, monthly).stats
                  ELSE IncomeStatsFilter(res.user, monthly).stats]

\* C7's case: a filtered expense response to a request without a frequency,
\* over an expense
C7_Witness ==
    /\ res.route = "GET /api/expense/stats/filter"
    /\ res.query.frequency = NoParam
    /\ Len(res.folded) >= 1
    /\ res.body.stats.totalAmount > 0

\* A trip of the user lists an expense dated within the request's range
WouldRollUp(response) ==
    \E t \in trips : \E e \in expenses :
        /\ t.userId = response.user
        /\ e.id \in Elements(t.expenses)
        /\ DateLE(ParseDate(response.query.startDate), <<e.date>>)
        /\ DateLE(<<e.date>>, ParseDate(response.query.endDate))

\* C8: GET /stats/filter of the trip router answers 400 when startDate,
\* endDate or frequency is missing or frequency is none of daily, weekly,
\* monthly, quarterly, yearly; it has then made no database query and sends
\* no stats.
C8_TripFilterRejects ==
    (/\ res.route = "GET /api/trip/stats/filter"
     /\ \/ Falsy(res.query.startDate) \/ Falsy(res.query.endDate)
        \/ res.query.frequency \notin Frequencies) =>
        /\ res.status = 400
        /\ res.queries = 0
        /\ res.folded = <<>>
        /\ DOMAIN res.body = {"error"}

\* C8's case: an unknown frequency with both dates given, sent by a user one
\* of whose trips has an expense in the range
C8_Witness ==
    /\ res.route = "GET /api/trip/stats/filter"
    /\ res.query.frequency = "fortnightly"
    /\ ~Falsy(res.query.startDate) /\ ~Falsy(res.query.endDate)
    /\ WouldRollUp(res)
    /\ res.status = 400

\* The ids of a set of documents
Ids(docs) == {d.id : d \in docs}

\* C9 as stated: with a range, the set a filtered statistics request
\* aggregates is exactly the user's transactions (for a trip: the trip's
\* stored expenses) with startDate <= date <= endDate.
C9_RangeExact ==
    /\ res.route \in FilterRoutes =>
          Elements(res.folded) = Ids(AskedAbout(res))
    /\ (res.route = "GET /api/trip/stats/filter" /\ res.status = 200) =>
          \A i \in 1..Len(res.folded) :
              Elements(res.folded[i].ids) =
                  Ids({e \in expenses :
                          /\ \E t \in trips : t.id = res.folded[i].trip
                                              /\ e.id \in Elements(t.expenses)
                          /\ InQueryRange(e, res.query)})

\* The calendar day (UTC) of a stored date, and of a date parameter
SameCalendarDay(instant, param) ==
    UTCFields(instant) = [year |-> param.y, month |-> param.m, day |-> param.d]

\* C10 as stated: a transaction whose calendar date is that of endDate is
\* aggregated by the filtered statistics whatever its time of day.  (Stated
\* for transactions whose category is stored.)
C10_EndDayIncluded ==
    /\ res.route \in FilterRoutes =>
          \A t \in (IF res.route \in ExpenseStatsRoutes THEN expenses ELSE incomes) :
              (/\ t.userId = res.user
               /\ Resolves(t)
               /\ SameCalendarDay(t.date, res.query.endDate)) =>
                  t.id \in Elements(res.folded)
    /\ (res.route = "GET /api/trip/stats/filter" /\ res.status = 200) =>
          \A i \in 1..Len(res.folded) : \A e \in expenses :
              (/\ \E t \in trips : t.id = res.folded[i].trip
                                   /\ e.id \in Elements(t.expenses)
               /\ SameCalendarDay(e.date, res.query.endDate)) =>
                  e.id \in Elements(res.folded[i].ids)

\* The day number of an instant on the calendar of a zone
DayIn(zone, t) == (t + zone) \div HoursPerDay

\* Two instants fall in the same day, week (Sunday to Saturday), month,
\* quarter or year on the calendar of a zone
SameBucketIn(zone, d1, d2, frequency) ==
    LET n1 == DayIn(zone, d1)
        n2 == DayIn(zone, d2)
        c1 == CivilFromDays(n1)
        c2 == CivilFromDays(n2)
    IN  CASE frequency = "daily"     -> n1 = n2
          [] frequency = "weekly"    ->
                (n1 + EpochWeekday) \div 7 = (n2 + EpochWeekday) \div 7
          [] frequency = "monthly"   -> c1.year = c2.year /\ c1.month = c2.month
          [] frequency = "quarterly" ->
                c1.year = c2.year /\ (c1.month - 1) \div 3 = (c2.month - 1) \div 3
          [] frequency = "yearly"    -> c1.year = c2.year

\* C5 as stated: for each of the three key functions and each frequency, two
\* dates get the same key if and only if they fall in the same day, week,
\* month, quarter or year.  (Stated for the pairs of dates on which the UTC
\* calendar and the server's calendar agree; formatDateKey is never applied
\* for daily.)
C5_KeysIdentifyBuckets ==
    res.route = "keys" =>
        LET same == SameBucketIn(0, probe.d1, probe.d2, probe.frequency)
        IN  same = SameBucketIn(tz, probe.d1, probe.d2, probe.frequency) =>
                /\ (res.expense[1] = res.expense[2]) <=> same
                /\ (res.income[1] = res.income[2]) <=> same
                /\ probe.frequency # "daily" =>
                      ((res.trip[1] = res.trip[2]) <=> same)

\* The YYYY-MM-DD date of the Sunday on or before a day number
SundayOnOrBefore(n) == ISODate((n - ((n + EpochWeekday) % 7)) * HoursPerDay)

\* C6 as stated: the weekly key of a date, in each of the three key
\* functions, is the YYYY-MM-DD date of the Sunday on or before it.  (Stated
\* for the dates whose UTC day is also their day on the server's calendar.)
C6_WeeklyKeyIsSunday ==
    (/\ res.route = "keys"
     /\ probe.frequency = "weekly"
     /\ DayIn(0, probe.d1) = DayIn(tz, probe.d1)) =>
        /\ res.expense[1] = SundayOnOrBefore(DayIn(0, probe.d1))
        /\ res.income[1] = SundayOnOrBefore(DayIn(0, probe.d1))
        /\ res.trip[1] = SundayOnOrBefore(DayIn(0, probe.d1))

\* C11: when the user has no transaction (GET /stats/all) or none dated within
\* the range asked for (GET /stats/filter), the expense and income statistics
\* answer 200 with totalAmount 0, fixed and variable (and need and want) at 0
\* and empty time-bucket and category maps.
C11_EmptyIsZero ==
    (/\ res.route \in ExpenseStatsRoutes \cup IncomeStatsRoutes
     /\ AskedAbout(res) = {}) =>
        /\ res.status = 200
        /\ res.body.stats.totalAmount = 0
        /\ res.body.stats.totalAmountByType = [k \in TransactionTypes |-> 0]
        /\ res.route \in ExpenseStatsRoutes =>
              res.body.stats.totalAmountByNeedOrWant = [k \in NeedOrWant |-> 0]
        /\ DOMAIN BucketMap(res) = {}
        /\ DOMAIN res.body.stats.totalAmountByCategory = {}

\* C11's case: a filtered expense request by a user who has expenses, none of
\* them dated within the range
C11_Witness ==
    /\ res.route = "GET /api/expense/stats/filter"
    /\ \E e \in expenses : e.userId = res.user /\ Resolves(e)
    /\ AskedAbout(res) = {}
    /\ res.status = 200
    /\ res.body.stats.totalAmount = 0

\* The stored expenses a trip lists that are dated within the range of a
\* query, startDate <= date <= endDate
TripExpensesInRange(t, query) ==
    {e \in expenses :
        /\ e.id \in Elements(t.expenses)
        /\ DateLE(ParseDate(query.startDate), <<e.date>>)
        /\ DateLE(<<e.date>>, ParseDate(query.endDate))}

\* The user's trips that list at least one expense dated within the range, in
\* the order they were stored
TripsWithExpensesInRange(response) ==
    InOrder({t \in trips : /\ t.userId = response.user
                           /\ TripExpensesInRange(t, response.query) # {}})

DurationStart == DateOnly(2024, 1, 11)

DurationTripBodies ==
    {[name |-> "Goa", startDate |-> DurationStart, endDate |-> e,
      expenses |-> Ascending(ids)] :
        e \in {NoDateParam, DateOnly(2024, 1, 21), DateOnly(2024, 1, 11),
               DateOnly(2024, 1, 1)},
        ids \in SUBSET StoredExpenseIds}

DurationQueries ==
    {[startDate |-> RangeStart, endDate |-> RangeEnd, frequency |-> f] :
        f \in {"daily", "monthly"}}

NextDuration ==
    \/ \E u \in Users, body \in CategoryBodies : PostCategory(u, body)
    \/ \E u \in Users, body \in ExpenseBodies : PostExpense(u, body)
    \/ \E u \in Users, body \in DurationTripBodies : PostTrip(u, body)
    \/ \E u \in Users : GetTripStatsAll(u)
    \/ \E u \in Users, query \in DurationQueries : GetTripStatsFilter(u, query)
    \/ Finish

SpecDuration == Init /\ [][NextDuration]_vars

\* C13 as stated: in every record of GET /stats/all and GET /stats/filter of
\* the trip router, tripDuration is at least 1.
C13_TripDurationAtLeastOne ==
    TripStatsSent =>
        \A i \in 1..Len(res.body.stats) : res.body.stats[i].tripDuration >= 1

(***************************************************************************)
(* Reads, updates and deletes by id, and the lists                         *)
(***************************************************************************)
\* .populate("categoryId", "name type"): the category's _id, name and type in
\* place of its id, null when no such category is stored
PopulateCategory(doc) ==
    LET hit == {c \in categories : c.id = doc.categoryId}
    IN  [field \in DOMAIN doc |->
            IF field # "categoryId" THEN doc[field]
            ELSE IF hit = {} THEN <<>>
            ELSE LET c == CHOOSE x \in hit : TRUE
                 IN  <<[id |-> c.id, name |-> c.name, type |-> c.type]>>]

\* .sort({ key: -1 }): descending by key, documents of equal key in natural order
SortDescending(docs, key) ==
    [i \in 1..Cardinality(docs) |->
        CHOOSE r \in docs :
            Cardinality({x \in docs : \/ x[key] > r[key]
                                      \/ (x[key] = r[key] /\ x.id < r.id)}) = i - 1]

\* GET /api/expense
GetExpenses(u) ==
    /\ res = Idle
    /\ LET found == SortDescending({e \in expenses : e.userId = u}, "date")
       IN  res' = Respond("GET /api/expense", u, <<>>, 200,
                          [expenses |-> [i \in 1..Len(found) |-> PopulateCategory(found[i])]],
                          1, <<>>)
    /\ UNCHANGED <<tz, now, nextId, categories, expenses, incomes, trips, probe, reports, mails, batch, configs, files>>

\* GET /api/expense/:id
GetExpense(u, id) ==
    /\ res = Idle
    /\ LET found == {e \in expenses : e.id = id /\ e.userId = u}
       IN  res' = IF found = {}
                  THEN Respond("GET /api/expense/:id", u, id, 404,
                               [message |-> "Expense not found"], 1, <<>>)
                  ELSE Respond("GET /api/expense/:id", u, id, 200,
                               [expense |-> PopulateCategory(CHOOSE e \in found : TRUE)],
                               1, <<>>)
    /\ UNCHANGED <<tz, now, nextId, categories, expenses, incomes, trips, probe, reports, mails, batch, configs, files>>

\* PUT /api/expense/:id with a body that carries every field.  The update
\* validators (runValidators) reject the update before the document is
\* looked for.
PutExpense(u, id, body) ==
    /\ res = Idle
    /\ LET found == {e \in expenses : e.id = id /\ e.userId = u}
           to(e) == [e EXCEPT !.categoryId = body.categoryId,
                              !.amount = body.amount,
                              !.date = ParseDate(body.date)[1],
                              !.type = body.type,
                              !.needOrWant = body.needOrWant]
       IN  IF \/ body.type \notin TransactionTypes
              \/ body.needOrWant \notin NeedOrWant
              \/ ParseDate(body.date) = <<>>
           THEN /\ res' = Respond("PUT /api/expense/:id", u, [id |-> id, body |-> body],
                                  500, [error |-> "Validation failed"], 0, <<>>)
                /\ UNCHANGED expenses
           ELSE IF found = {}
           THEN /\ res' = Respond("PUT /api/expense/:id", u, [id |-> id, body |-> body],
                                  404, [message |-> "Expense not found"], 1, <<>>)
                /\ UNCHANGED expenses
           ELSE /\ expenses' = (expenses \ found) \cup {to(e) : e \in found}
                /\ res' = Respond("PUT /api/expense/:id", u, [id |-> id, body |-> body],
                                  200,
                                  [expense |-> PopulateCategory(to(CHOOSE e \in found : TRUE))],
                                  1, <<>>)
    /\ UNCHANGED <<tz, now, nextId, categories, incomes, trips, probe, reports, mails, batch, configs, files>>

\* A DELETE that looks the document up by its id alone
DeleteExpense_AnyOwner(u, id) ==
    /\ res = Idle
    /\ LET found == {e \in expenses : e.id = id}
       IN  /\ expenses' = expenses \ found
           /\ res' = IF found = {}
                     THEN Respond("DELETE /api/expense/:id", u, id, 404,
                                  [message |-> "Expense not found"], 1, <<>>)
                     ELSE Respond("DELETE /api/expense/:id", u, id, 200,
                                  [message |-> "Expense deleted successfully"], 1, <<>>)
    /\ UNCHANGED <<tz, now, nextId, categories, incomes, trips, probe, reports, mails, batch, configs, files>>

\* DELETE /api/expense/:id
DeleteExpense(u, id) ==
    /\ res = Idle
    /\ LET found == {e \in expenses : e.id = id /\ e.userId = u}
       IN  /\ expenses' = expenses \ found
           /\ res' = IF found = {}
                     THEN Respond("DELETE /api/expense/:id", u, id, 404,
                                  [message |-> "Expense not found"], 1, <<>>)
                     ELSE Respond("DELETE /api/expense/:id", u, id, 200,
                                  [message |-> "Expense deleted successfully"], 1, <<>>)
    /\ UNCHANGED <<tz, now, nextId, categories, incomes, trips, probe, reports, mails, batch, configs, files>>

\* GET /api/income
GetIncomes(u) ==
    /\ res = Idle
    /\ LET found == SortDescending({e \in incomes : e.userId = u}, "date")
       IN  res' = Respond("GET /api/income", u, <<>>, 200,
                          [incomes |-> [i \in 1..Len(found) |-> PopulateCategory(found[i])]],
                          1, <<>>)
    /\ UNCHANGED <<tz, now, nextId, categories, expenses, incomes, trips, probe, reports, mails, batch, configs, files>>

\* GET /api/income/:id
GetIncome(u, id) ==
    /\ res = Idle
    /\ LET found == {e \in incomes : e.id = id /\ e.userId = u}
       IN  res' = IF found = {}
                  THEN Respond("GET /api/income/:id", u, id, 404,
                               [message |-> "Income not found"], 1, <<>>)
                  ELSE Respond("GET /api/income/:id", u, id, 200,
                               [income |-> PopulateCategory(CHOOSE e \in found : TRUE)],
                               1, <<>>)
    /\ UNCHANGED <<tz, now, nextId, categories, expenses, incomes, trips, probe, reports, mails, batch, configs, files>>

\* PUT /api/income/:id with a body that carries every field
PutIncome(u, id, body) ==
    /\ res = Idle
    /\ LET found == {e \in incomes : e.id = id /\ e.userId = u}
           to(e) == [e EXCEPT !.categoryId = body.categoryId,
                              !.amount = body.amount,
                              !.source = body.source,
                              !.date = ParseDate(body.date)[1],
                              !.type = body.type]
       IN  IF body.type \notin TransactionTypes \/ ParseDate(body.date) = <<>>
           THEN /\ res' = Respond("PUT /api/income/:id", u, [id |-> id, body |-> body],
                                  500, [error |-> "Validation failed"], 0, <<>>)
                /\ UNCHANGED incomes
           ELSE IF found = {}
           THEN /\ res' = Respond("PUT /api/income/:id", u, [id |-> id, body |-> body],
                                  404, [message |-> "Income not found"], 1, <<>>)
                /\ UNCHANGED incomes
           ELSE /\ incomes' = (incomes \ found) \cup {to(e) : e \in found}
                /\ res' = Respond("PUT /api/income/:id", u, [id |-> id, body |-> body],
                                  200,
                                  [income |-> PopulateCategory(to(CHOOSE e \in found : TRUE))],
                                  1, <<>>)
    /\ UNCHANGED <<tz, now, nextId, categories, expenses, trips, probe, reports, mails, batch, configs, files>>

\* DELETE /api/income/:id
DeleteIncome(u, id) ==
    /\ res = Idle
    /\ LET found == {e \in incomes : e.id = id /\ e.userId = u}
       IN  /\ incomes' = incomes \ found
           /\ res' = IF found = {}
                     THEN Respond("DELETE /api/income/:id", u, id, 404,
                                  [message |-> "Income not found"], 1, <<>>)
                     ELSE Respond("DELETE /api/income/:id", u, id, 200,
                                  [message |-> "Income deleted successfully"], 1, <<>>)
    /\ UNCHANGED <<tz, now, nextId, categories, expenses, trips, probe, reports, mails, batch, configs, files>>

\* GET /api/category
GetCategories(u) ==
    /\ res = Idle
    /\ res' = Respond("GET /api/category", u, <<>>, 200,
                      [categories |-> InOrder({c \in categories : c.userId = u})], 1, <<>>)
    /\ UNCHANGED <<tz, now, nextId, categories, expenses, incomes, trips, probe, reports, mails, batch, configs, files>>

\* GET /api/category/:id
GetCategory(u, id) ==
    /\ res = Idle
    /\ LET found == {c \in categories : c.id = id /\ c.userId = u}
       IN  res' = IF found = {}
                  THEN Respond("GET /api/category/:id", u, id, 404,
                               [message |-> "Category not found"], 1, <<>>)
                  ELSE Respond("GET /api/category/:id", u, id, 200,
                               [category |-> CHOOSE c \in found : TRUE], 1, <<>>)
    /\ UNCHANGED <<tz, now, nextId, categories, expenses, incomes, trips, probe, reports, mails, batch, configs, files>>

\* PUT /api/category/:id with a body that carries name and type
PutCategory(u, id, body) ==
    /\ res = Idle
    /\ LET found == {c \in categories : c.id = id /\ c.userId = u}
           to(c) == [c EXCEPT !.name = body.name, !.type = body.type]
       IN  IF body.type \notin CategoryTypes
           THEN /\ res' = Respond("PUT /api/category/:id", u, [id |-> id, body |-> body],
                                  500, [error |-> "Validation failed"], 0, <<>>)
                /\ UNCHANGED categories
           ELSE IF found = {}
           THEN /\ res' = Respond("PUT /api/category/:id", u, [id |-> id, body |-> body],
                                  404, [message |-> "Category not found"], 1, <<>>)
                /\ UNCHANGED categories
           ELSE /\ categories' = (categories \ found) \cup {to(c) : c \in found}
                /\ res' = Respond("PUT /api/category/:id", u, [id |-> id, body |-> body],
                                  200, [category |-> to(CHOOSE c \in found : TRUE)], 1, <<>>)
    /\ UNCHANGED <<tz, now, nextId, expenses, incomes, trips, probe, reports, mails, batch, configs, files>>

\* .populate("expenses", "amount description date type needOrWant"): the
\* stored expenses of the listed ids, whoever owns them, with the selected
\* fields, in the order of the list; an id that names no expense is left out
PopulateExpenses(trip) ==
    LET stored == FilterSeq(trip.expenses,
                            {id \in Elements(trip.expenses) :
                                \E e \in expenses : e.id = id})
    IN  [trip EXCEPT !.expenses =
            [k \in 1..Len(stored) |->
                LET e == ExpenseById(stored[k])
                IN  [id |-> e.id, amount |-> e.amount, date |-> e.date,
                     type |-> e.type, needOrWant |-> e.needOrWant]]]

\* GET /api/trip
GetTrips(u) ==
    /\ res = Idle
    /\ LET found == SortDescending({t \in trips : t.userId = u}, "startDate")
       IN  res' = Respond("GET /api/trip", u, <<>>, 200,
                          [trips |-> [i \in 1..Len(found) |-> PopulateExpenses(found[i])]],
                          1, <<>>)
    /\ UNCHANGED <<tz, now, nextId, categories, expenses, incomes, trips, probe, reports, mails, batch, configs, files>>

\* GET /api/trip/:id
GetTrip(u, id) ==
    /\ res = Idle
    /\ LET found == {t \in trips : t.id = id /\ t.userId = u}
       IN  res' = IF found = {}
                  THEN Respond("GET /api/trip/:id", u, id, 404,
                               [message |-> "Trip not found"], 1, <<>>)
                  ELSE Respond("GET /api/trip/:id", u, id, 200,
                               [trip |-> PopulateExpenses(CHOOSE t \in found : TRUE)],
                               1, <<>>)
    /\ UNCHANGED <<tz, now, nextId, categories, expenses, incomes, trips, probe, reports, mails, batch, configs, files>>

\* PUT /api/trip/:id with a body that carries every field
PutTrip(u, id, body) ==
    /\ res = Idle
    /\ LET found == {t \in trips : t.id = id /\ t.userId = u}
           to(t) == [t EXCEPT !.name = body.name,
                              !.startDate = ParseDate(body.startDate)[1],
                              !.endDate = ParseDate(body.endDate),
                              !.expenses = body.expenses]
       IN  IF ParseDate(body.startDate) = <<>> \/ ParseDate(body.endDate) = <<>>
           THEN /\ res' = Respond("PUT /api/trip/:id", u, [id |-> id, body |-> body],
                                  500, [error |-> "Cast to date failed"], 0, <<>>)
                /\ UNCHANGED trips
           ELSE IF found = {}
           THEN /\ res' = Respond("PUT /api/trip/:id", u, [id |-> id, body |-> body],
                                  404, [message |-> "Trip not found"], 1, <<>>)
                /\ UNCHANGED trips
           ELSE /\ trips' = (trips \ found) \cup {to(t) : t \in found}
                /\ res' = Respond("PUT /api/trip/:id", u, [id |-> id, body |-> body],
                                  200,
                                  [trip |-> PopulateExpenses(to(CHOOSE t \in found : TRUE))],
                                  1, <<>>)
    /\ UNCHANGED <<tz, now, nextId, categories, expenses, incomes, probe, reports, mails, batch, configs, files>>

\* DELETE /api/trip/:id
DeleteTrip(u, id) ==
    /\ res = Idle
    /\ LET found == {t \in trips : t.id = id /\ t.userId = u}
       IN  /\ trips' = trips \ found
           /\ res' = IF found = {}
                     THEN Respond("DELETE /api/trip/:id", u, id, 404,
                                  [message |-> "Trip not found"], 1, <<>>)
                     ELSE Respond("DELETE /api/trip/:id", u, id, 200,
                                  [message |-> "Trip deleted successfully"], 1, <<>>)
    /\ UNCHANGED <<tz, now, nextId, categories, expenses, incomes, probe, reports, mails, batch, configs, files>>

(***************************************************************************)
(* Report router                                                           *)
(***************************************************************************)
ReportTypes == {"weekly", "monthly", "yearly", "trip"}

\* A POST that tests only that a type is given and leaves the rest to the schema
PostReport_TypeUnchecked(u, body) ==
    /\ res = Idle
    /\ nextId <= MaxDocs
    /\ IF body.type = NoParam
       THEN /\ res' = Respond("POST /api/report", u, body, 400,
                              [message |-> "Invalid or missing report type."], 0, <<>>)
            /\ UNCHANGED <<nextId, reports>>
       ELSE IF body.type \notin ReportTypes
       THEN /\ res' = Respond("POST /api/report", u, body, 500,
                              [error |-> "Validation failed"], 1, <<>>)
            /\ UNCHANGED <<nextId, reports>>
       ELSE /\ reports' = reports \cup
                {[id |-> nextId, userId |-> u, type |-> body.type, stats |-> body.stats,
                  generatedAt |-> now]}
            /\ nextId' = nextId + 1
            /\ res' = Respond("POST /api/report", u, body, 201, <<nextId>>, 1, <<>>)
    /\ UNCHANGED <<tz, now, categories, expenses, incomes, trips, probe, mails, batch, configs, files>>

\* POST /api/report
PostReport(u, body) ==
    /\ res = Idle
    /\ nextId <= MaxDocs
    /\ IF body.type = NoParam \/ body.type \notin ReportTypes
       THEN /\ res' = Respond("POST /api/report", u, body, 400,
                              [message |-> "Invalid or missing report type."], 0, <<>>)
            /\ UNCHANGED <<nextId, reports>>
       ELSE /\ reports' = reports \cup
                {[id |-> nextId, userId |-> u, type |-> body.type, stats |-> body.stats,
                  generatedAt |-> now]}
            /\ nextId' = nextId + 1
            /\ res' = Respond("POST /api/report", u, body, 201, <<nextId>>, 1, <<>>)
    /\ UNCHANGED <<tz, now, categories, expenses, incomes, trips, probe, mails, batch, configs, files>>

\* GET /api/report: most recently created first
GetReports(u) ==
    /\ res = Idle
    /\ res' = Respond("GET /api/report", u, <<>>, 200,
                      [reports |-> SortDescending({r \in reports : r.userId = u},
                                                  "id")], 1, <<>>)
    /\ UNCHANGED <<tz, now, nextId, categories, expenses, incomes, trips, probe, reports, mails, batch, configs, files>>

\* GET /api/report/:id
GetReport(u, id) ==
    /\ res = Idle
    /\ LET found == {r \in reports : r.id = id /\ r.userId = u}
       IN  res' = IF found = {}
                  THEN Respond("GET /api/report/:id", u, id, 404,
                               [message |-> "Report not found."], 1, <<>>)
                  ELSE Respond("GET /api/report/:id", u, id, 200,
                               [report |-> CHOOSE r \in found : TRUE], 1, <<>>)
    /\ UNCHANGED <<tz, now, nextId, categories, expenses, incomes, trips, probe, reports, mails, batch, configs, files>>

\* An update that does not ask whose report it is
PutReport_AnyOwner(u, id, body) ==
    /\ res = Idle
    /\ LET found == {r \in reports : r.id = id}
           to(r) == [r EXCEPT !.type = body.type, !.stats = body.stats]
       IN  IF body.type # NoParam /\ body.type \notin ReportTypes
           THEN /\ res' = Respond("PUT /api/report/:id", u, [id |-> id, body |-> body],
                                  400, [message |-> "Invalid report type."], 0, <<>>)
                /\ UNCHANGED reports
           ELSE IF found = {}
           THEN /\ res' = Respond("PUT /api/report/:id", u, [id |-> id, body |-> body],
                                  404, [message |-> "Report not found."], 1, <<>>)
                /\ UNCHANGED reports
           ELSE /\ reports' = (reports \ found) \cup {to(r) : r \in found}
                /\ res' = Respond("PUT /api/report/:id", u, [id |-> id, body |-> body],
                                  200, [report |-> to(CHOOSE r \in found : TRUE)], 1, <<>>)
    /\ UNCHANGED <<tz, now, nextId, categories, expenses, incomes, trips, probe, mails, batch, configs, files>>

\* PUT /api/report/:id with a body that carries type and stats
PutReport(u, id, body) ==
    /\ res = Idle
    /\ LET found == {r \in reports : r.id = id /\ r.userId = u}
           to(r) == [r EXCEPT !.type = body.type, !.stats = body.stats]
       IN  IF body.type # NoParam /\ body.type \notin ReportTypes
           THEN /\ res' = Respond("PUT /api/report/:id", u, [id |-> id, body |-> body],
                                  400, [message |-> "Invalid report type."], 0, <<>>)
                /\ UNCHANGED reports
           ELSE IF found = {}
           THEN /\ res' = Respond("PUT /api/report/:id", u, [id |-> id, body |-> body],
                                  404, [message |-> "Report not found."], 1, <<>>)
                /\ UNCHANGED reports
           ELSE /\ reports' = (reports \ found) \cup {to(r) : r \in found}
                /\ res' = Respond("PUT /api/report/:id", u, [id |-> id, body |-> body],
                                  200, [report |-> to(CHOOSE r \in found : TRUE)], 1, <<>>)
    /\ UNCHANGED <<tz, now, nextId, categories, expenses, incomes, trips, probe, mails, batch, configs, files>>

\* DELETE /api/report/:id
DeleteReport(u, id) ==
    /\ res = Idle
    /\ LET found == {r \in reports : r.id = id /\ r.userId = u}
       IN  /\ reports' = reports \ found
           /\ res' = IF found = {}
                     THEN Respond("DELETE /api/report/:id", u, id, 404,
                                  [message |-> "Report not found."], 1, <<>>)
                     ELSE Respond("DELETE /api/report/:id", u, id, 200,
                                  [message |-> "Report deleted successfully."], 1, <<>>)
    /\ UNCHANGED <<tz, now, nextId, categories, expenses, incomes, trips, probe, mails, batch, configs, files>>

(***************************************************************************)
(* SpecOwner: two users reading, updating and deleting records by id       *)
(***************************************************************************)
OwnerCategoryBodies == {[name |-> "Rent", type |-> "expense"]}
OwnerCategoryUpdates == {[name |-> "Bills", type |-> "expense"]}

OwnerExpenseBodies ==
    {[categoryId |-> c, amount |-> 30, date |-> OnStart, type |-> "fixed",
      needOrWant |-> "need"] : c \in StoredCategoryIds}
OwnerExpenseUpdates ==
    {[categoryId |-> c, amount |-> 50, date |-> OnEnd, type |-> "variable",
      needOrWant |-> "want"] : c \in StoredCategoryIds}

OwnerIncomeBodies ==
    {[categoryId |-> c, amount |-> 100, source |-> "Job", date |-> OnStart,
      type |-> "fixed"] : c \in StoredCategoryIds}
OwnerIncomeUpdates ==
    {[categoryId |-> c, amount |-> 70, source |-> "Gift", date |-> OnEnd,
      type |-> "variable"] : c \in StoredCategoryIds}

OwnerTripBodies ==
    {[name |-> "Goa", startDate |-> RangeStart, endDate |-> DateOnly(2024, 1, 11),
      expenses |-> <<>>]}
OwnerTripUpdates ==
    {[name |-> "Leh", startDate |-> RangeStart, endDate |-> RangeEnd,
      expenses |-> <<>>]}

\* The stats a client stores in a report: an aggregate it was sent
OwnerReportBodies == {[type |-> "monthly", stats |-> [totalAmount |-> 30]]}
OwnerReportUpdates ==
    {[type |-> t, stats |-> [totalAmount |-> 50]] : t \in {"yearly", "daily"}}

\* Each request by id names a stored record of its kind, the caller's or not.
NextOwner ==
    \/ \E u \in Users, body \in OwnerCategoryBodies : PostCategory(u, body)
    \/ \E u \in Users : GetCategories(u)
    \/ \E u \in Users, id \in Ids(categories) : GetCategory(u, id)
    \/ \E u \in Users, id \in Ids(categories), body \in OwnerCategoryUpdates : PutCategory(u, id, body)
    \/ \E u \in Users, id \in Ids(categories) : DeleteCategory(u, id)
    \/ \E u \in Users, body \in OwnerExpenseBodies : PostExpense(u, body)
    \/ \E u \in Users : GetExpenses(u)
    \/ \E u \in Users, id \in Ids(expenses) : GetExpense(u, id)
    \/ \E u \in Users, id \in Ids(expenses), body \in OwnerExpenseUpdates : PutExpense(u, id, body)
    \/ \E u \in Users, id \in Ids(expenses) : DeleteExpense(u, id)
    \/ \E u \in Users, body \in OwnerIncomeBodies : PostIncome(u, body)
    \/ \E u \in Users : GetIncomes(u)
    \/ \E u \in Users, id \in Ids(incomes) : GetIncome(u, id)
    \/ \E u \in Users, id \in Ids(incomes), body \in OwnerIncomeUpdates : PutIncome(u, id, body)
    \/ \E u \in Users, id \in Ids(incomes) : DeleteIncome(u, id)
    \/ \E u \in Users, body \in OwnerTripBodies : PostTrip(u, body)
    \/ \E u \in Users : GetTrips(u)
    \/ \E u \in Users, id \in Ids(trips) : GetTrip(u, id)
    \/ \E u \in Users, id \in Ids(trips), body \in OwnerTripUpdates : PutTrip(u, id, body)
    \/ \E u \in Users, id \in Ids(trips) : DeleteTrip(u, id)
    \/ \E u \in Users, body \in OwnerReportBodies : PostReport(u, body)
    \/ \E u \in Users : GetReports(u)
    \/ \E u \in Users, id \in Ids(reports) : GetReport(u, id)
    \/ \E u \in Users, id \in Ids(reports), body \in OwnerReportUpdates : PutReport(u, id, body)
    \/ \E u \in Users, id \in Ids(reports) : DeleteReport(u, id)
    \/ Finish

SpecOwner == Init /\ [][NextOwner]_vars

\* The five kinds of owned records, their collections and their routes
Kinds == {"category", "expense", "income", "trip", "report"}

Stored(kind) ==
    CASE kind = "category" -> categories
      [] kind = "expense"  -> expenses
      [] kind = "income"   -> incomes
      [] kind = "trip"     -> trips
      [] kind = "report"   -> reports

ListRoute(kind) == "GET /api/" \o kind
ByIdRoutes(kind) ==
    {verb \o " /api/" \o kind \o "/:id" : verb \in {"GET", "PUT", "DELETE"}}

\* The id a request by id names
TargetId(response) ==
    IF \E kind \in Kinds : response.route = "PUT /api/" \o kind \o "/:id"
    THEN response.query.id ELSE response.query

\* A request by id has just been answered, for a record another user owns
ForeignById(kind) ==
    /\ res = Idle
    /\ res'.route \in ByIdRoutes(kind)
    /\ \E r \in Stored(kind) : r.id = TargetId(res') /\ r.userId # res'.user

\* A list has just been answered
Listed(kind) == res = Idle /\ res'.route = ListRoute(kind)

\* C14 as stated: a GET, PUT or DELETE by id on a record another user owns is
\* answered 404 and changes no stored record; a list holds exactly the
\* caller's records.
C14_ForeignIsNotFound ==
    [][\A kind \in Kinds :
          /\ ForeignById(kind) =>
                /\ res'.status = 404
                /\ <<categories, expenses, incomes, trips, reports>>'
                      = <<categories, expenses, incomes, trips, reports>>
          /\ Listed(kind) =>
                \A f \in DOMAIN res'.body :
                    {d.id : d \in Elements(res'.body[f])}
                        = {r.id : r \in {x \in Stored(kind) : x.userId = res'.user}}]_vars

\* C14 amended: the answer is 404, or the validation error of a PUT whose
\* body is rejected before the record is looked for (400 or 500); in each
\* case no stored record changes and the answer carries no document; a list
\* holds exactly the caller's records.
C14_ForeignIsNotFoundOrInvalid ==
    [][\A kind \in Kinds :
          /\ ForeignById(kind) =>
                /\ \/ res'.status = 404
                   \/ /\ res'.route = "PUT /api/" \o kind \o "/:id"
                      /\ res'.status \in {400, 500}
                      /\ res'.queries = 0
                /\ DOMAIN res'.body \subseteq {"message", "error"}
                /\ <<categories, expenses, incomes, trips, reports>>'
                      = <<categories, expenses, incomes, trips, reports>>
          /\ Listed(kind) =>
                \A f \in DOMAIN res'.body :
                    {d.id : d \in Elements(res'.body[f])}
                        = {r.id : r \in {x \in Stored(kind) : x.userId = res'.user}}]_vars

\* C14's case: a valid PUT naming an expense that another user owns has been
\* answered 404
C14_Witness ==
    /\ res.route = "PUT /api/expense/:id"
    /\ res.status = 404
    /\ \E e \in expenses : e.id = res.query.id /\ e.userId # res.user
    /\ \E e \in expenses : e.userId = res.user

(***************************************************************************)
(* SpecCrud: expenses and incomes created, updated and deleted, with       *)
(* amounts of either sign, and the expense statistics                      *)
(***************************************************************************)
CrudExpenseBodies ==
    {[categoryId |-> c, amount |-> a, date |-> OnStart, type |-> "fixed",
      needOrWant |-> "need"] : c \in StoredCategoryIds, a \in {30, 0 - 20}}
CrudExpenseUpdates ==
    {[categoryId |-> c, amount |-> a, date |-> OnEnd, type |-> "variable",
      needOrWant |-> "want"] : c \in StoredCategoryIds, a \in {50, 0 - 20}}

CrudIncomeBodies ==
    {[categoryId |-> c, amount |-> a, source |-> "Job", date |-> OnStart,
      type |-> "fixed"] : c \in StoredCategoryIds, a \in {100, 0 - 20}}
CrudIncomeUpdates ==
    {[categoryId |-> c, amount |-> a, source |-> "Gift", date |-> OnEnd,
      type |-> "variable"] : c \in StoredCategoryIds, a \in {70, 0 - 20}}

NextCrud ==
    \/ \E u \in Users, body \in OwnerCategoryBodies : PostCategory(u, body)
    \/ \E u \in Users, body \in CrudExpenseBodies : PostExpense(u, body)
    \/ \E u \in Users, id \in KnownIds, body \in CrudExpenseUpdates : PutExpense(u, id, body)
    \/ \E u \in Users, id \in KnownIds : DeleteExpense(u, id)
    \/ \E u \in Users, body \in CrudIncomeBodies : PostIncome(u, body)
    \/ \E u \in Users, id \in KnownIds, body \in CrudIncomeUpdates : PutIncome(u, id, body)
    \/ \E u \in Users : GetExpenseStatsAll(u)
    \/ Finish

SpecCrud == Init /\ [][NextCrud]_vars

\* C15: whatever expenses were created, updated and deleted, by whichever
\* users, the totalAmount of a user's GET /stats/all is the sum of the
\* amounts of the expenses stored with that user as owner at the time of the
\* request, provided the category of each of them is stored.
C15_StatsDerivedAndScoped ==
    (/\ res.route = "GET /api/expense/stats/all"
     /\ \A e \in expenses : e.userId = res.user => Resolves(e)) =>
        /\ res.status = 200
        /\ res.body.stats.totalAmount
              = SumAmounts({e \in expenses : e.userId = res.user})

\* C15's case: the user's expense has been updated, another user has an
\* expense too, and the total is the user's alone
C15_Witness ==
    /\ res.route = "GET /api/expense/stats/all"
    /\ \E e \in expenses : e.userId = res.user /\ e.amount = 50 /\ e.type = "variable"
    /\ \E e \in expenses : e.userId # res.user /\ e.amount > 0
    /\ res.body.stats.totalAmount = 50

\* C16 as stated: in the trip statistics of a user, an expense owned by
\* another user adds to no total of any record, and is not returned in the
\* daily grouping of GET /stats/filter.
C16_TripOwnExpensesOnly ==
    TripStatsSent =>
        \A i \in 1..Len(res.body.stats) :
            LET record == res.body.stats[i]
                own    == {e \in TripRecordExpenses(res)[i] : e.userId = res.user}
            IN  /\ record.totalAmount = SumAmounts(own)
                /\ SumValues(record.totalAmountByType) = SumAmounts(own)
                /\ SumValues(record.totalAmountByNeedOrWant) = SumAmounts(own)
                /\ (/\ res.route = "GET /api/trip/stats/filter"
                    /\ res.query.frequency = "daily") =>
                      \A k \in 1..Len(record.filteredByFrequency) :
                          record.filteredByFrequency[k].userId = res.user

\* The amount a create or update request carries
RequestAmount(response) ==
    IF response.route \in {"POST /api/expense", "POST /api/income"}
    THEN response.query.amount
    ELSE response.query.body.amount

\* C17 as stated: every stored expense and income has amount >= 0, and a
\* create or update that carries a negative amount is not accepted.
C17_AmountsNonNegative ==
    /\ \A t \in expenses \cup incomes : t.amount >= 0
    /\ (/\ res.route \in {"POST /api/expense", "POST /api/income",
                          "PUT /api/expense/:id", "PUT /api/income/:id"}
        /\ RequestAmount(res) < 0) =>
            res.status \notin {200, 201}

(***************************************************************************)
(* SpecCreate: create requests, complete and incomplete                    *)
(***************************************************************************)
\* An expense body, complete (with a type the schema knows or not) or with
\* one of its required fields missing (an amount of 0 is missing to "!amount")
CreateExpenseBodies ==
    LET full(c) == [categoryId |-> c, amount |-> 30, date |-> OnStart,
                    type |-> "fixed", needOrWant |-> "need"]
    IN  UNION {{full(c),
                [full(c) EXCEPT !.type = "weekly"],
                [full(c) EXCEPT !.categoryId = NoId],
                [full(c) EXCEPT !.amount = 0],
                [full(c) EXCEPT !.type = NoParam],
                [full(c) EXCEPT !.needOrWant = NoParam]} : c \in StoredCategoryIds}

CreateTripBodies ==
    LET full == [name |-> "Goa", startDate |-> RangeStart, endDate |-> NoDateParam,
                 expenses |-> <<>>]
    IN  {full, [full EXCEPT !.name = NoParam], [full EXCEPT !.startDate = NoDateParam]}

CreateReportBodies ==
    {[type |-> t, stats |-> [totalAmount |-> 30]] : t \in {"monthly", "daily", NoParam}}

NextCreate ==
    \/ \E u \in Users, body \in OwnerCategoryBodies : PostCategory(u, body)
    \/ \E u \in Users, body \in CreateExpenseBodies : PostExpense(u, body)
    \/ \E u \in Users, body \in CreateTripBodies : PostTrip(u, body)
    \/ \E u \in Users, body \in CreateReportBodies : PostReport(u, body)
    \/ Finish

SpecCreate == Init /\ [][NextCreate]_vars

\* A create request of the kinds C18 lists: an expense without categoryId,
\* amount, type or needOrWant, a trip without name or startDate, a report
\* whose type is missing or none of weekly, monthly, yearly, trip
IncompleteCreate(response) ==
    \/ /\ response.route = "POST /api/expense"
       /\ \/ response.query.categoryId = NoId \/ response.query.amount = 0
          \/ response.query.type = NoParam \/ response.query.needOrWant = NoParam
    \/ /\ response.route = "POST /api/trip"
       /\ response.query.name = NoParam \/ Falsy(response.query.startDate)
    \/ /\ response.route = "POST /api/report"
       /\ response.query.type \notin ReportTypes

\* C18: such a request is answered 400 with a message, and it (like every
\* create request that is not answered 201) stores and changes no record.
C18_InvalidCreateRejected ==
    [][(res = Idle /\ res'.route \in {"POST /api/expense", "POST /api/trip",
                                     "POST /api/report", "POST /api/category"}) =>
          /\ IncompleteCreate(res') =>
                /\ res'.status = 400
                /\ DOMAIN res'.body = {"message"}
                /\ res'.queries = 0
          /\ res'.status # 201 =>
                <<categories, expenses, incomes, trips, reports, nextId>>'
                    = <<categories, expenses, incomes, trips, reports, nextId>>]_vars

\* C18's case: a report of type "daily" was refused although records are
\* stored, and no report is
C18_Witness ==
    /\ res.route = "POST /api/report"
    /\ res.query.type = "daily"
    /\ res.status = 400
    /\ reports = {}
    /\ expenses # {}

(***************************************************************************)
(* SpecDates: filtered statistics asked with dates that are missing or     *)
(* are no dates                                                            *)
(***************************************************************************)
DateParams == {RangeStart, RangeEnd, NotADate, NoDateParam}

DateQueries ==
    {[startDate |-> s, endDate |-> e, frequency |-> "monthly"] :
        s \in DateParams \ {RangeEnd}, e \in DateParams \ {RangeStart}}

DatesTripBodies ==
    {[name |-> "Goa", startDate |-> RangeStart, endDate |-> DateOnly(2024, 1, 11),
      expenses |-> Ascending(ids)] : ids \in SUBSET StoredExpenseIds}

NextDates ==
    \/ \E u \in Users, body \in OwnerCategoryBodies : PostCategory(u, body)
    \/ \E u \in Users, body \in OwnerExpenseBodies : PostExpense(u, body)
    \/ \E u \in Users, body \in OwnerIncomeBodies : PostIncome(u, body)
    \/ \E u \in Users, body \in DatesTripBodies : PostTrip(u, body)
    \/ \E u \in Users, query \in DateQueries : GetExpenseStatsFilter(u, query)
    \/ \E u \in Users, query \in DateQueries : GetIncomeStatsFilter(u, query)
    \/ \E u \in Users, query \in DateQueries : GetTripStatsFilter(u, query)
    \/ Finish

SpecDates == Init /\ [][NextDates]_vars

\* C19 as stated: a filtered statistics request whose startDate or endDate is
\* missing or is no date is answered 200 with the empty result: totals of 0
\* and empty maps from the expense and income routers, an empty list of
\* records from the trip router.
C19_InvalidDatesMatchNothing ==
    (/\ res.route \in FilterRoutes \cup {"GET /api/trip/stats/filter"}
     /\ \/ ParseDate(res.query.startDate) = <<>>
        \/ ParseDate(res.query.endDate) = <<>>) =>
        /\ res.status = 200
        /\ res.route \in FilterRoutes =>
              /\ res.body.stats.totalAmount = 0
              /\ res.body.stats.totalAmountByType = [k \in TransactionTypes |-> 0]
              /\ DOMAIN res.body.stats.totalAmountByFrequency = {}
              /\ DOMAIN res.body.stats.totalAmountByCategory = {}
        /\ res.route = "GET /api/trip/stats/filter" => res.body.stats = <<>>

(***************************************************************************)
(* Mail delivery (util/mailer.js) and the report dispatch that uses it     *)
(***************************************************************************)
MaxMails == 2

\* sendMail(mailOptions): the mail is handed to the transporter with a
\* callback and the function returns at once; the outcome is not known yet.
\* The record keeps what the caller's await of sendMail yields: the function
\* has no return statement, so its promise is fulfilled with undefined.
sendMail(mailOptions) ==
    Append(mails, [to |-> mailOptions.to, subject |-> mailOptions.subject,
                   html |-> mailOptions.html, outcome |-> "pending",
                   returned |-> "undefined"])

\* A callback that throws the error instead of writing it to the console:
\* nothing catches it, and the process, with its batch dispatch, ends
MailCallback_Throws(i, error) ==
    /\ i \in 1..Len(mails)
    /\ mails[i].outcome = "pending"
    /\ mails' = [mails EXCEPT ![i].outcome =
                    IF error THEN "thrown Error" ELSE "logged Email sent"]
    /\ batch' = IF error /\ batch.state = "running"
                THEN [batch EXCEPT !.state = "aborted"]
                ELSE batch
    /\ UNCHANGED <<tz, now, nextId, categories, expenses, incomes, trips, res, probe, reports, configs, files>>

\* The transporter's callback of the i-th mail: the error or the response is
\* written to the console, nothing is sent again.
MailCallback(i, error) ==
    /\ i \in 1..Len(mails)
    /\ mails[i].outcome = "pending"
    /\ mails' = [mails EXCEPT ![i].outcome =
                    IF error THEN "logged Error" ELSE "logged Email sent"]
    /\ UNCHANGED <<tz, now, nextId, categories, expenses, incomes, trips, res, probe, reports, batch, configs, files>>

\* A dispatch that hands the mail over whatever the total is
ReportDispatch_AlwaysDelivers(u, query) ==
    /\ res = Idle
    /\ Len(mails) < MaxMails
    /\ LET r == ExpenseStatsFilter(u, query)
       IN  /\ mails' = sendMail([to |-> u,
                                 subject |-> <<query.startDate, query.endDate>>,
                                 html |-> r.stats])
           /\ res' = Respond("report dispatch", u, query, 200, [sent |-> TRUE], 1,
                             [i \in 1..Len(r.rows) |-> r.rows[i].doc.id])
    /\ UNCHANGED <<tz, now, nextId, categories, expenses, incomes, trips, probe, reports, batch, configs, files>>

\* The report dispatch for one user: the aggregate of the user's expenses in
\* the range; when its totalAmount is not zero it is rendered and handed to
\* sendMail with a subject naming the range, otherwise nothing is handed over
\* and the caller is told that nothing was sent.
ReportDispatch(u, query) ==
    /\ res = Idle
    /\ Len(mails) < MaxMails
    /\ LET r == ExpenseStatsFilter(u, query)
       IN  IF r.stats.totalAmount # 0
           THEN /\ mails' = sendMail([to |-> u,
                                      subject |-> <<query.startDate, query.endDate>>,
                                      html |-> r.stats])
                /\ res' = Respond("report dispatch", u, query, 200, [sent |-> TRUE], 1,
                                  [i \in 1..Len(r.rows) |-> r.rows[i].doc.id])
           ELSE /\ mails' = mails
                /\ res' = Respond("report dispatch", u, query, 200, [sent |-> FALSE], 1,
                                  <<>>)
    /\ UNCHANGED <<tz, now, nextId, categories, expenses, incomes, trips, probe, reports, batch, configs, files>>

(***************************************************************************)
(* SpecReport: expenses are stored and reports on them are dispatched      *)
(***************************************************************************)
ReportExpenseBodies ==
    {[categoryId |-> c, amount |-> a, date |-> OnStart, type |-> "fixed",
      needOrWant |-> "need"] : c \in StoredCategoryIds, a \in {30, 0 - 30}}

ReportQueries ==
    {[startDate |-> RangeStart, endDate |-> RangeEnd, frequency |-> "monthly"],
     [startDate |-> DateOnly(2024, 2, 1), endDate |-> DateOnly(2024, 2, 29),
      frequency |-> "monthly"]}

NextReport ==
    \/ \E u \in Users, body \in OwnerCategoryBodies : PostCategory(u, body)
    \/ \E u \in Users, body \in ReportExpenseBodies : PostExpense(u, body)
    \/ \E u \in Users, query \in ReportQueries : ReportDispatch(u, query)
    \/ \E i \in 1..MaxMails, error \in BOOLEAN : MailCallback(i, error)
    \/ Finish

SpecReport == Init /\ [][NextReport]_vars

\* The sum of the amounts of the expenses of the dispatch's user that are
\* dated in the dispatch's range
DispatchTotal(response) ==
    SumAmounts({e \in expenses : e.userId = response.user
                                    /\ InQueryRange(e, response.query)})

\* C20: a report dispatch for a user whose expenses in the requested range sum
\* to 0 hands no mail to sendMail and tells its caller that nothing was sent;
\* a mail is handed to sendMail only by a dispatch whose total is not 0, and
\* it is one mail, addressed to that user.
C20_NoDeliveryWhenZero ==
    [][/\ (res = Idle /\ res'.route = "report dispatch") =>
             /\ DispatchTotal(res') = 0 =>
                   /\ mails' = mails
                   /\ res'.body.sent = FALSE
             /\ DispatchTotal(res') # 0 =>
                   /\ Len(mails') = Len(mails) + 1
                   /\ mails'[Len(mails')].to = res'.user
                   /\ res'.body.sent = TRUE
       /\ Len(mails') # Len(mails) =>
             /\ res = Idle
             /\ res'.route = "report dispatch"
             /\ DispatchTotal(res') # 0]_vars

\* C20's case: a user whose stored expenses in the range cancel to 0 asked
\* for a report and was told that nothing was sent, while a mail of another
\* dispatch has been handed over
C20_Witness ==
    /\ res.route = "report dispatch"
    /\ \E e \in expenses : e.userId = res.user /\ InQueryRange(e, res.query)
    /\ DispatchTotal(res) = 0
    /\ res.body.sent = FALSE
    /\ mails # <<>>

(***************************************************************************)
(* The batch report dispatch: the dispatch of one user, for every user     *)
(***************************************************************************)
\* The batch is started for a range: every user is still to be processed
StartBatch(query) ==
    /\ batch = NoBatch
    /\ res = Idle
    /\ batch' = [state |-> "running", query |-> query, todo |-> Users, done |-> <<>>]
    /\ UNCHANGED <<tz, now, nextId, categories, expenses, incomes, trips, res, probe, reports, mails, configs, files>>

\* The deliveries whose callback has reported an error
FailedRecipients ==
    {mails[i].to : i \in {j \in 1..Len(mails) : mails[j].outcome \notin
                                                    {"pending", "logged Email sent"}}}

\* One user of the batch, in any order: the user's aggregate over the range
\* is computed and, when its totalAmount is not zero, handed to sendMail.
\* The entry added to done tells whether a mail was handed over, and which
\* deliveries had failed by then.
BatchStep(u) ==
    /\ batch.state = "running"
    /\ u \in batch.todo
    /\ LET r    == ExpenseStatsFilter(u, batch.query)
           sent == r.stats.totalAmount # 0
           left == batch.todo \ {u}
       IN  /\ mails' = IF sent
                       THEN sendMail([to |-> u,
                                      subject |-> <<batch.query.startDate,
                                                    batch.query.endDate>>,
                                      html |-> r.stats])
                       ELSE mails
           /\ batch' = [batch EXCEPT
                          !.todo  = left,
                          !.done  = Append(@, [user |-> u, sent |-> sent,
                                               failed |-> FailedRecipients]),
                          !.state = IF left = {} THEN "done" ELSE "running"]
    /\ UNCHANGED <<tz, now, nextId, categories, expenses, incomes, trips, res, probe, reports, configs, files>>

(***************************************************************************)
(* SpecBatch: expenses are stored, then one batch dispatch runs while the  *)
(* transporter's callbacks arrive                                          *)
(***************************************************************************)
NextBatch ==
    \/ \E u \in Users, body \in OwnerCategoryBodies :
            batch = NoBatch /\ PostCategory(u, body)
    \/ \E u \in Users, body \in ReportExpenseBodies :
            batch = NoBatch /\ PostExpense(u, body)
    \/ \E query \in ReportQueries : StartBatch(query)
    \/ \E u \in Users : BatchStep(u)
    \/ \E i \in 1..MaxMails, error \in BOOLEAN : MailCallback(i, error)
    \/ Finish

SpecBatch == Init /\ [][NextBatch]_vars

\* The number of mails handed to sendMail for a user
MailsTo(u) == Cardinality({i \in 1..Len(mails) : mails[i].to = u})

\* The sum of the amounts of a user's expenses dated in the batch's range
BatchTotal(u) ==
    SumAmounts({e \in expenses : e.userId = u /\ InQueryRange(e, batch.query)})

\* C21: in a batch dispatch, whatever deliveries have failed and in whatever
\* order the users are taken and the callbacks arrive, the batch keeps
\* running (the state in which the users left are processed) as long as a
\* user is left and is done only when none is, and every processed user has
\* exactly one mail handed to sendMail when the user's total is not 0 and
\* none when it is 0.
C21_FailureDoesNotStopBatch ==
    batch # NoBatch =>
        /\ batch.todo # {} => batch.state = "running"
        /\ batch.todo = {} => batch.state = "done"
        /\ \A u \in Users \ batch.todo :
              MailsTo(u) = IF BatchTotal(u) # 0 THEN 1 ELSE 0

\* C21's case: the batch is complete, the delivery to the first user had
\* failed before the second user was processed, and the second user's mail
\* was handed over all the same
C21_Witness ==
    /\ batch # NoBatch
    /\ batch.state = "done"
    /\ Len(batch.done) = 2
    /\ batch.done[1].user \in batch.done[2].failed
    /\ batch.done[2].sent
    /\ MailsTo(batch.done[2].user) = 1

\* C22 as stated: a delivery that failed has been logged, and what the caller
\* of sendMail got back for it differs from what the caller got back for a
\* delivery that succeeded.
C22_CallerToldOfFailure ==
    \A i, j \in 1..Len(mails) :
        /\ mails[i].outcome # "pending" =>
              mails[i].outcome \in {"logged Error", "logged Email sent"}
        /\ (mails[i].outcome = "logged Error" /\ mails[j].outcome = "logged Email sent") =>
              mails[i].returned # mails[j].returned

\* C23: DELETE /api/category/:id removes the category of that id owned by
\* the requester and nothing else: every other category, and every expense,
\* income and trip, is stored unchanged after it, those that referenced the
\* deleted category included.
C23_DeleteCategoryOnly ==
    [][(res = Idle /\ res'.route = "DELETE /api/category/:id") =>
          /\ categories' = {c \in categories :
                                ~(c.id = res'.query /\ c.userId = res'.user)}
          /\ expenses' = expenses
          /\ incomes' = incomes
          /\ trips' = trips
          /\ res'.status = 200 <=> categories' # categories]_vars

\* C23's case: a category was deleted, an expense that referenced it is
\* stored with its orphaned categoryId, and another category is stored
C23_Witness ==
    /\ res.route = "DELETE /api/category/:id"
    /\ res.status = 200
    /\ \E e \in expenses : e.categoryId = res.query
    /\ categories # {}

\* C24: a report is stored with the stats of the request that creates it,
\* and the stats of a stored report change in no step but an answered-200
\* PUT /api/report/:id on that report by its owner, whatever is created,
\* updated or deleted among the categories, expenses, incomes and trips.
C24_ReportStatsFrozen ==
    [][\A after \in reports' :
          IF after.id \in Ids(reports)
          THEN \A before \in reports :
                  (before.id = after.id /\ before.stats # after.stats) =>
                      /\ res = Idle
                      /\ res'.route = "PUT /api/report/:id"
                      /\ res'.status = 200
                      /\ res'.user = before.userId
                      /\ res'.query.id = before.id
                      /\ after.stats = res'.query.body.stats
          ELSE /\ res'.route = "POST /api/report"
               /\ after.stats = res'.query.stats]_vars

\* C24's case: the last stored expense has been deleted by its owner, whose
\* report still holds the stats it was created with
C24_Witness ==
    /\ res.route = "DELETE /api/expense/:id"
    /\ res.status = 200
    /\ expenses = {}
    /\ \E r \in reports : r.userId = res.user /\ r.stats = [totalAmount |-> 30]

\* The end of a trip: its endDate, the current time when it has none
TripEnd(t) == IF t.endDate # <<>> THEN t.endDate[1] ELSE now

\* The days from the day of the trip's start to the day of its end, both counted
InclusiveDays(t) ==
    (TripEnd(t) \div HoursPerDay) - (t.startDate \div HoursPerDay) + 1

\* C25 as stated: the tripDuration of every trip record sent is the number
\* of days from the trip's start day to its end day, both counted (the
\* current day when the trip has no endDate): 11 for a trip from the 11th to
\* the 21st.  Stated of the users whose trips do not end before they start.
C25_TripDurationInclusive ==
    (/\ TripStatsSent
     /\ \A t \in trips : t.userId = res.user => TripEnd(t) >= t.startDate) =>
        \A i \in 1..Len(res.body.stats) :
            \E t \in trips : /\ t.userId = res.user
                             /\ res.body.stats[i].tripDuration = InclusiveDays(t)

\* C26 as stated: for every date, the monthly key of the expense
\* aggregation, of the income aggregation and of the trip rollup's grouping
\* is one and the same string.  Stated of a server whose zone is UTC, where
\* the three read the same calendar month.
C26_MonthlyKeyUniform ==
    (res.route = "keys" /\ probe.frequency = "monthly" /\ tz = 0) =>
        \A i \in 1..2 : /\ res.expense[i] = res.income[i]
                        /\ res.income[i] = res.trip[i]

(***************************************************************************)
(* Authentication (util/jwt): the bearer token of the request              *)
(***************************************************************************)
NoToken  == [kind |-> "none"]
BadToken == [kind |-> "invalid"]

\* A token signed by the server for a user (POST /api/users/login)
TokenOf(u) == [kind |-> "signed", userId |-> u]

Tokens == {NoToken, BadToken} \cup {TokenOf(u) : u \in Users}

\* authenticateToken: 401 without a token, 403 when jwt.verify throws, and
\* otherwise req.user is the decoded token and next() is called (0 here)
authenticateToken(token) ==
    IF token = NoToken THEN 401
    ELSE IF token.kind # "signed" THEN 403
    ELSE 0

\* The response authenticateToken sends when it does not call next()
Rejected(route, token, request) ==
    Respond(route, "", [token |-> token, request |-> request],
            authenticateToken(token),
            IF token = NoToken THEN [message |-> "Access token is required"]
            ELSE [message |-> "Invalid token"],
            0, <<>>)

(***************************************************************************)
(* Import-configuration router                                             *)
(***************************************************************************)
\* The router's stack, in the order of registration
importConfigRouter ==
    << [method |-> "POST", path |-> "/",                          auth |-> TRUE,
        handler |-> "Create new configuration"],
       [method |-> "GET",  path |-> "/",                          auth |-> TRUE,
        handler |-> "Get all configs for a user"],
       [method |-> "GET",  path |-> "/single/:id",                auth |-> TRUE,
        handler |-> "Get one config"],
       [method |-> "POST", path |-> "/pdf/analyze/:configId",     auth |-> TRUE,
        handler |-> "Upload + Analyze PDF"],
       [method |-> "POST", path |-> "/",                          auth |-> TRUE,
        handler |-> "Bulk insert records"],
       [method |-> "POST", path |-> "/excel/analyze/:configId",   auth |-> FALSE,
        handler |-> "Excel analyze"] >>

\* Express takes the first layer of the stack that matches the method and
\* the path; a later one runs only when the earlier calls next(), which no
\* handler of this router does.
Dispatch(method, path) ==
    LET matching == {i \in 1..Len(importConfigRouter) :
                        /\ importConfigRouter[i].method = method
                        /\ importConfigRouter[i].path = path}
    IN  importConfigRouter[CHOOSE i \in matching : \A j \in matching : i <= j]

\* Expense.insertMany(records): a record the Expense schema accepts
ValidExpenseRecord(r) ==
    /\ r.userId \in Users
    /\ r.categoryId # NoId
    /\ r.type \in TransactionTypes
    /\ r.needOrWant \in NeedOrWant

\* The documents insertMany stores for the records, with the ids from first on
InsertedExpenses(records, first) ==
    {[id |-> first + i - 1, userId |-> records[i].userId,
      categoryId |-> records[i].categoryId, amount |-> records[i].amount,
      date |-> now, type |-> records[i].type,
      needOrWant |-> records[i].needOrWant] : i \in 1..Len(records)}

\* POST / of the router.  The body may carry name, table and mappings (a
\* configuration) and records (a list; <<>> when it is missing or empty).
\* config.save() of a body without a name is accepted or refused: saved
\* tells which.
PostImportConfig(token, body, saved) ==
    /\ res = Idle
    /\ nextId + Len(body.records) <= MaxDocs + 1
    /\ nextId <= MaxDocs
    /\ LET layer   == Dispatch("POST", "/")
           route   == "POST importConfig /"
           request == [token |-> token, body |-> body]
       IN  IF layer.auth /\ authenticateToken(token) # 0
           THEN /\ res' = Rejected(route, token, body)
                /\ UNCHANGED <<nextId, configs, expenses>>
           ELSE IF layer.handler = "Create new configuration"
           THEN IF body.name = NoParam /\ ~saved
                THEN /\ res' = Respond(route, token.userId, request, 500,
                                       [error |-> "Validation failed"], 1, <<>>)
                     /\ UNCHANGED <<nextId, configs, expenses>>
                ELSE LET config == [id |-> nextId, userId |-> token.userId,
                                    name |-> body.name, table |-> body.table,
                                    mappings |-> body.mappings]
                     IN  /\ configs' = configs \cup {config}
                         /\ nextId' = nextId + 1
                         /\ res' = Respond(route, token.userId, request, 200,
                                           [config |-> config], 1, <<>>)
                         /\ UNCHANGED expenses
           ELSE IF body.records = <<>>
                THEN /\ res' = Respond(route, token.userId, request, 400,
                                       [error |-> "No records provided"], 0, <<>>)
                     /\ UNCHANGED <<nextId, configs, expenses>>
                ELSE IF \E i \in 1..Len(body.records) :
                            ~ValidExpenseRecord(body.records[i])
                THEN /\ res' = Respond(route, token.userId, request, 500,
                                       [error |-> "Validation failed"], 1, <<>>)
                     /\ UNCHANGED <<nextId, configs, expenses>>
                ELSE /\ expenses' = expenses \cup InsertedExpenses(body.records, nextId)
                     /\ nextId' = nextId + Len(body.records)
                     /\ res' = Respond(route, token.userId, request, 200,
                                       [success |-> TRUE, count |-> Len(body.records)],
                                       1, <<>>)
                     /\ UNCHANGED configs
    /\ UNCHANGED <<tz, now, categories, incomes, trips, probe, reports, mails, batch, files>>

\* GET / of the router: the configurations of the token's user
GetImportConfigs(token) ==
    /\ res = Idle
    /\ LET route == "GET importConfig /"
       IN  IF authenticateToken(token) # 0
           THEN res' = Rejected(route, token, <<>>)
           ELSE res' = Respond(route, token.userId, [token |-> token], 200,
                               InOrder({c \in configs : c.userId = token.userId}),
                               1, <<>>)
    /\ UNCHANGED <<tz, now, nextId, categories, expenses, incomes, trips, probe, reports, mails, batch, configs, files>>

\* GET /single/:id: ImportConfiguration.findById(id), null when none is stored
GetImportConfig(token, id) ==
    /\ res = Idle
    /\ LET route == "GET importConfig /single/:id"
           found == {c \in configs : c.id = id}
       IN  IF authenticateToken(token) # 0
           THEN res' = Rejected(route, token, id)
           ELSE res' = Respond(route, token.userId, [token |-> token, id |-> id], 200,
                               InOrder(found), 1, <<>>)
    /\ UNCHANGED <<tz, now, nextId, categories, expenses, incomes, trips, probe, reports, mails, batch, configs, files>>

\* Temporary files multer keeps on disk at a time
MaxFiles == 2

\* A request without a file part
NoFile == [kind |-> "none"]

\* A configId that is no ObjectId: findById rejects with a CastError
NotAnId == 0 - 1

\* The path multer gives the uploaded file: one that no file on disk has
FreshPath == CHOOSE n \in 1..(MaxFiles + 1) : n \notin files

\* upload.single("file"): the file part, when there is one, is written under
\* a fresh path before the handler runs
Uploaded(file) == IF file = NoFile THEN files ELSE files \cup {FreshPath}

\* The record of one row under the mappings: the cell at columnIndex (from
\* 0) for each field, "" when the row has no such cell
MapRow(row, mappings) ==
    [field \in {mappings[k].field : k \in 1..Len(mappings)} |->
        LET k   == CHOOSE k \in 1..Len(mappings) :
                       /\ mappings[k].field = field
                       /\ \A l \in 1..Len(mappings) : mappings[l].field = field => l <= k
            idx == mappings[k].columnIndex + 1
        IN  IF idx \in 1..Len(row) THEN row[idx] ELSE ""]

\* The records of the PDF's rows: the rows of more than one cell, mapped
PdfRecords(rows, config) ==
    LET tableRows == FilterSeq(rows, {r \in Elements(rows) : Len(r) > 1})
    IN  [i \in 1..Len(tableRows) |-> MapRow(tableRows[i], config.mappings)]

\* The cells of a row that are not empty (cells are held trimmed)
NonEmptyCount(row) == Cardinality({i \in 1..Len(row) : row[i] # ""})

\* analyzeExcel(filePath, config), given the workbook read from the file: the
\* rows of the sheet named second, from the first row that has as many
\* non-empty cells as the mappings need (the first row when none has), the
\* empty rows skipped, each mapped and kept when a mapped field is not empty
analyzeExcel(workbook, config) ==
    LET rows      == workbook.sheets[2]
        indices   == {config.mappings[k].columnIndex : k \in 1..Len(config.mappings)}
        maxMapped == IF indices = {} THEN 0 - 1
                     ELSE CHOOSE n \in indices : \A o \in indices : o <= n
        needed    == IF maxMapped + 1 > 1 THEN maxMapped + 1 ELSE 1
        enough    == {i \in 1..Len(rows) : NonEmptyCount(rows[i]) >= needed}
        startRow  == IF enough = {} THEN 1
                     ELSE CHOOSE i \in enough : \A j \in enough : i <= j
        rest      == SubSeq(rows, startRow, Len(rows))
        kept      == FilterSeq(rest,
                        {r \in Elements(rest) :
                            /\ NonEmptyCount(r) > 0
                            /\ \E f \in DOMAIN MapRow(r, config.mappings) :
                                  MapRow(r, config.mappings)[f] # ""})
    IN  [i \in 1..Len(kept) |-> MapRow(kept[i], config.mappings)]

\* XLSX.readFile and the sheet lookup succeed: the file is a workbook and
\* has a second sheet (sheet_to_json of a missing sheet throws)
ExcelReadable(file) == file.readable /\ Len(file.sheets) >= 2

\* POST /pdf/analyze/:configId: authenticateToken, upload.single("file"),
\* then the handler.  The file is unlinked on the path that sends the records.
PostPdfAnalyze(token, configId, file) ==
    /\ res = Idle
    /\ Cardinality(files) < MaxFiles
    /\ LET route   == "POST importConfig /pdf/analyze/:configId"
           found   == {c \in configs : c.id = configId}
           path    == IF file = NoFile THEN <<>> ELSE <<FreshPath>>
           request == [token |-> token, configId |-> configId, path |-> path]
       IN  IF authenticateToken(token) # 0
           THEN /\ res' = Rejected(route, token, [configId |-> configId, path |-> <<>>])
                /\ files' = files
           ELSE IF configId = NotAnId
           THEN /\ res' = Respond(route, token.userId, request, 500,
                                  [error |-> "Cast to ObjectId failed"], 1, <<>>)
                /\ files' = Uploaded(file)
           ELSE IF found = {}
           THEN /\ res' = Respond(route, token.userId, request, 404,
                                  [error |-> "Configuration not found"], 1, <<>>)
                /\ files' = Uploaded(file)
           ELSE IF file = NoFile
           THEN /\ res' = Respond(route, token.userId, request, 500,
                                  [error |-> "Cannot read properties of undefined"],
                                  1, <<>>)
                /\ files' = files
           ELSE IF ~file.readable
           THEN /\ res' = Respond(route, token.userId, request, 500,
                                  [error |-> "parse error"], 1, <<>>)
                /\ files' = Uploaded(file)
           ELSE /\ res' = Respond(route, token.userId, request, 200,
                                  [records |-> PdfRecords(file.rows,
                                                          CHOOSE c \in found : TRUE)],
                                  1, <<>>)
                /\ files' = Uploaded(file) \ {FreshPath}
    /\ UNCHANGED <<tz, now, nextId, categories, expenses, incomes, trips, probe, reports, mails, batch, configs>>

\* POST /excel/analyze/:configId: upload.single("file"), then the handler,
\* whose finally block unlinks the file on every path
PostExcelAnalyze(token, configId, file) ==
    /\ res = Idle
    /\ Cardinality(files) < MaxFiles
    /\ LET route   == "POST importConfig /excel/analyze/:configId"
           found   == {c \in configs : c.id = configId}
           path    == IF file = NoFile THEN <<>> ELSE <<FreshPath>>
           request == [token |-> token, configId |-> configId, path |-> path]
           config  == CHOOSE c \in found : TRUE
           respond(status, body, queries) ==
               Respond(route, "", request, status, body, queries, <<>>)
       IN  /\ res' =
                IF file = NoFile
                THEN respond(400, [error |-> "No file uploaded"], 0)
                ELSE IF configId = NotAnId
                THEN respond(500, [error |-> "Cast to ObjectId failed"], 1)
                ELSE IF found = {}
                THEN respond(404, [error |-> "Configuration not found"], 1)
                ELSE IF config.mappings = <<>>
                THEN respond(400, [error |-> "Configuration has no mappings"], 1)
                ELSE IF ~ExcelReadable(file)
                THEN respond(500, [error |-> "Excel analysis failed"], 1)
                ELSE respond(200, [records |-> analyzeExcel(file, config)], 1)
           /\ files' = Uploaded(file) \ (IF file = NoFile THEN {} ELSE {FreshPath})
    /\ UNCHANGED <<tz, now, nextId, categories, expenses, incomes, trips, probe, reports, mails, batch, configs>>

(***************************************************************************)
(* User router                                                             *)
(***************************************************************************)
\* The email of a user's account
EmailOf(u) == u \o "@example.com"

\* GET /api/users: User.find({}, "email"), the id and email of every user
GetUsers(token) ==
    /\ res = Idle
    /\ res' = Respond("GET /api/users", "", [token |-> token], 200,
                      [u \in Users |-> [id |-> u, email |-> EmailOf(u)]], 1, <<>>)
    /\ UNCHANGED <<tz, now, nextId, categories, expenses, incomes, trips, probe, reports, mails, batch, configs, files>>

(***************************************************************************)
(* The routers behind authenticateToken, as the category router is         *)
(***************************************************************************)
\* POST /api/category with a token
AuthPostCategory(token, body) ==
    IF authenticateToken(token) = 0
    THEN PostCategory(token.userId, body)
    ELSE /\ res = Idle
         /\ res' = Rejected("POST /api/category", token, body)
         /\ UNCHANGED <<tz, now, nextId, categories, expenses, incomes, trips, probe, reports, mails, batch, configs, files>>

\* GET /api/category with a token
AuthGetCategories(token) ==
    IF authenticateToken(token) = 0
    THEN GetCategories(token.userId)
    ELSE /\ res = Idle
         /\ res' = Rejected("GET /api/category", token, <<>>)
         /\ UNCHANGED <<tz, now, nextId, categories, expenses, incomes, trips, probe, reports, mails, batch, configs, files>>

(***************************************************************************)
(* SpecImport: the import-configuration and user routers, and the category *)
(* router, asked with and without tokens                                   *)
(***************************************************************************)
ImportRecord ==
    [userId |-> "u1", categoryId |-> 1, amount |-> 30, type |-> "fixed",
     needOrWant |-> "need"]

\* Bodies of POST /: a configuration with and without mappings, a list of
\* records, and a body with neither
ImportBodies ==
    {[name |-> "Bank", table |-> "statement",
      mappings |-> <<[field |-> "date", columnIndex |-> 0],
                     [field |-> "amount", columnIndex |-> 1]>>,
      records |-> <<>>],
     [name |-> "Draft", table |-> "statement", mappings |-> <<>>, records |-> <<>>],
     [name |-> NoParam, table |-> NoParam, mappings |-> <<>>,
      records |-> <<ImportRecord>>],
     [name |-> NoParam, table |-> NoParam, mappings |-> <<>>, records |-> <<>>]}

StatementRows ==
    << <<"Statement">>, <<"2024-01-01", "30">>, <<"", "">>, <<"2024-01-02", "50">> >>

PdfFiles ==
    {NoFile} \cup {[kind |-> "pdf", readable |-> r, rows |-> StatementRows] :
                      r \in BOOLEAN}

ExcelFiles ==
    {NoFile} \cup {[kind |-> "xlsx", readable |-> r, sheets |-> sh] :
                      r \in BOOLEAN,
                      sh \in {<<StatementRows>>, <<StatementRows, StatementRows>>}}

ConfigIds == Ids(configs) \cup {nextId, NotAnId}

NextImport ==
    \/ \E token \in Tokens, body \in ImportBodies, saved \in BOOLEAN :
            PostImportConfig(token, body, saved)
    \/ \E token \in Tokens : GetImportConfigs(token)
    \/ \E token \in Tokens, id \in Ids(configs) : GetImportConfig(token, id)
    \/ \E token \in Tokens, id \in ConfigIds, file \in PdfFiles :
            PostPdfAnalyze(token, id, file)
    \/ \E token \in Tokens, id \in ConfigIds, file \in ExcelFiles :
            PostExcelAnalyze(token, id, file)
    \/ \E token \in Tokens : GetUsers(token)
    \/ \E token \in Tokens, body \in OwnerCategoryBodies : AuthPostCategory(token, body)
    \/ \E token \in Tokens : AuthGetCategories(token)
    \/ Finish

SpecImport == Init /\ [][NextImport]_vars

\* C27 as stated: a POST / of the import-configuration router with a valid
\* token and a non-empty list of records stores the records as expenses and
\* answers with their number, and with no records answers 400 "No records
\* provided".
C27_BulkInsertServesPost ==
    [][(/\ res = Idle
        /\ res'.route = "POST importConfig /"
        /\ authenticateToken(res'.query.token) = 0) =>
          LET records == res'.query.body.records
          IN  IF records # <<>>
              THEN /\ res'.status = 200
                   /\ res'.body = [success |-> TRUE, count |-> Len(records)]
                   /\ Cardinality(expenses') = Cardinality(expenses) + Len(records)
              ELSE /\ res'.status = 400
                   /\ res'.body = [error |-> "No records provided"]
                   /\ expenses' = expenses]_vars

\* The routes of SpecImport whose response keeps the request's token
TokenRoutes ==
    {"POST importConfig /", "GET importConfig /", "GET importConfig /single/:id",
     "POST importConfig /pdf/analyze/:configId",
     "POST importConfig /excel/analyze/:configId", "GET /api/users"}

\* The owners of the records a response returns or its handler has read
OwnersServed(response) ==
    CASE response.route \in {"GET importConfig /", "GET importConfig /single/:id"} ->
            {response.body[i].userId : i \in 1..Len(response.body)}
      [] response.route \in {"POST importConfig /pdf/analyze/:configId",
                             "POST importConfig /excel/analyze/:configId"} ->
            {c.userId : c \in {c \in configs : c.id = response.query.configId}}
      [] response.route = "GET /api/users" ->
            {response.body[u].id : u \in DOMAIN response.body}
      [] OTHER -> {}

\* C28 as stated: a request without a token is answered 401 and one with an
\* invalid token 403, in both cases with nothing stored, deleted or written
\* to disk; and a request that is served returns and reads only records of
\* the token's user.
C28_TokenFirstAndOwnData ==
    [][(res = Idle /\ res'.route \in TokenRoutes) =>
          LET token == res'.query.token
          IN  /\ token = NoToken => res'.status = 401
              /\ token = BadToken => res'.status = 403
              /\ res'.status \in {401, 403} =>
                    /\ res'.queries = 0
                    /\ <<categories, expenses, configs, files>>'
                           = <<categories, expenses, configs, files>>
              /\ res'.status \notin {401, 403} =>
                    OwnersServed(res') \subseteq {token.userId}]_vars

\* C29 as stated: when an upload-and-analyze request that carried a file has
\* been answered by its handler, the temporary file is no longer on disk.
C29_UploadDeleted ==
    (/\ res.route \in {"POST importConfig /pdf/analyze/:configId",
                       "POST importConfig /excel/analyze/:configId"}
     /\ res.status \notin {401, 403}
     /\ res.query.path # <<>>) =>
        res.query.path[1] \notin files

(***************************************************************************)
(* SpecDangling: expenses listed by trips are deleted and the trips rolled *)
(* up                                                                      *)
(***************************************************************************)
\* Expenses of a category that is stored or not (the id after the last one
\* the database hands out)
DanglingExpenseBodies ==
    {[categoryId |-> c, amount |-> a, date |-> OnStart, type |-> "fixed",
      needOrWant |-> "need"] :
        c \in StoredCategoryIds \cup {MaxDocs + 1}, a \in {30, 50}}

\* Trips that list stored expenses, once or twice
DanglingTripBodies ==
    {[name |-> "Goa", startDate |-> RangeStart, endDate |-> DateOnly(2024, 1, 11),
      expenses |-> ids] :
        ids \in {<<>>} \cup {<<a>> : a \in StoredExpenseIds}
                       \cup {<<a, b>> : a, b \in StoredExpenseIds}}

NextDangling ==
    \/ \E u \in Users, body \in OwnerCategoryBodies : PostCategory(u, body)
    \/ \E u \in Users, body \in DanglingExpenseBodies : PostExpense(u, body)
    \/ \E u \in Users, body \in DanglingTripBodies : PostTrip(u, body)
    \/ \E u \in Users, id \in Ids(expenses) : DeleteExpense(u, id)
    \/ \E u \in Users : GetTripStatsAll(u)
    \/ Finish

SpecDangling == Init /\ [][NextDangling]_vars

\* The expenses a trip lists that are stored
ListedAndStored(t) == {e \in expenses : e.id \in Elements(t.expenses)}

\* C30: DELETE /api/expense/:id leaves every trip as it was, and removes the
\* requester's expense of that id only; GET /api/trip/stats/all is answered
\* 200 with one record per trip of the user, whose totalAmount is the sum of
\* the amounts of the expenses the trip lists that are stored, each once,
\* whether or not the trip also lists ids of deleted expenses.
C30_DanglingExpenseTolerated ==
    [][/\ (res = Idle /\ res'.route = "DELETE /api/expense/:id") =>
             /\ trips' = trips
             /\ expenses' = {e \in expenses :
                                ~(e.id = res'.query /\ e.userId = res'.user)}
       /\ (res = Idle /\ res'.route = "GET /api/trip/stats/all") =>
             LET mine == InOrder({t \in trips : t.userId = res'.user})
             IN  /\ res'.status = 200
                 /\ Len(res'.body.stats) = Len(mine)
                 /\ \A i \in 1..Len(mine) :
                       res'.body.stats[i].totalAmount
                           = SumAmounts(ListedAndStored(mine[i]))]_vars

\* C30's case: a trip of the user lists a deleted expense's id and a stored
\* expense, and its rollup counts the stored one
C30_Witness ==
    /\ res.route = "GET /api/trip/stats/all"
    /\ res.status = 200
    /\ \E t \in trips :
          /\ t.userId = res.user
          /\ \E k \in 1..Len(t.expenses) : t.expenses[k] \notin Ids(expenses)
          /\ ListedAndStored(t) # {}
          /\ \E i \in 1..Len(res.body.stats) :
                res.body.stats[i].totalAmount = SumAmounts(ListedAndStored(t))

====
